---- MODULE Spec2Model ----
(***************************************************************************)
(* Canvas MCP HTTP API: the tool registry, the registry-based dispatcher   *)
(* (main.py call_tool), the tool base class, and the Canvas API client     *)
(* with its pagination loop and error classifier.                          *)
(* The two handler-table dispatchers (api/index.py, api/tools.py) are      *)
(* modelled beside it as further applications.                             *)
(*                                                                         *)
(* Python values are tagged records.  A Python string is a sequence of     *)
(* non-empty tokens, so formatting is concatenation and the empty string   *)
(* is the empty sequence.                                                  *)
(***************************************************************************)
EXTENDS Integers, Sequences, FiniteSets, TLC

VARIABLES
    tools,              \* ToolRegistry._tools: ordered dict, a sequence of tool instances
    tools_by_category,  \* ToolRegistry._tools_by_category: category -> sequence of tool names
    imported,           \* number of tool modules imported so far (startup)
    pc,                 \* "import", "idle", "awaiting" (suspended at an await), "done", "crashed"
    request,            \* the ToolRequest of the current invocation
    ctx,                \* the ToolContext of the current invocation
    frame,              \* locals of the suspended client call
    sent,               \* outbound HTTP requests issued by the current invocation
    served,             \* responses received by the current invocation
    validated,          \* validate_args has returned normally in this invocation
    outcome,            \* how the client call of this invocation ended
    raised,             \* the exception that reached call_tool's except clauses
    envelope,           \* the ToolResponse returned by call_tool
    app,                \* the FastAPI application the process serves: "main", "index", "tools"
    environ             \* os.environ: the CANVAS_API_URL and CANVAS_API_TOKEN entries

vars == <<tools, tools_by_category, imported, pc, request, ctx, frame, sent,
          served, validated, outcome, raised, envelope, app, environ>>

---------------------------------------------------------------------------
(* Bounds *)

MaxPages == 3       \* responses a server serves to one client call

---------------------------------------------------------------------------
(* Python values *)

None == [t |-> "None"]
Str(parts) == [t |-> "str", s |-> parts]
PyInt(i) == [t |-> "int", i |-> i]
PyBool(b) == [t |-> "bool", b |-> b]
PyList(l) == [t |-> "list", l |-> l]
PyDict(items) == [t |-> "dict", items |-> items]   \* ordered <<[k, v], ...>>

Truthy(v) ==
    CASE v.t = "None" -> FALSE
      [] v.t = "str"  -> Len(v.s) > 0
      [] v.t = "int"  -> v.i # 0
      [] v.t = "bool" -> v.b
      [] v.t = "list" -> Len(v.l) > 0
      [] v.t = "dict" -> Len(v.items) > 0
      [] OTHER        -> TRUE

IsInt(v) == v.t \in {"int", "bool"}          \* isinstance(v, int): bool is an int
IntValue(v) == IF v.t = "bool" THEN (IF v.b THEN 1 ELSE 0) ELSE v.i
Format(v) ==                                 \* f"{v}"
    CASE v.t = "str"  -> v.s
      [] v.t = "int"  -> <<ToString(v.i)>>
      [] v.t = "bool" -> IF v.b THEN <<"True">> ELSE <<"False">>
      [] OTHER        -> <<"None">>

DictHas(d, k) == \E i \in 1..Len(d.items) : d.items[i].k = k
DictGet(d, k, default) ==
    IF DictHas(d, k)
    THEN d.items[CHOOSE i \in 1..Len(d.items) : d.items[i].k = k].v
    ELSE default
DictKeys(d) == [i \in 1..Len(d.items) |-> d.items[i].k]

RECURSIVE Join(_, _)
Join(sep, names) ==                          \* sep.join(names)
    IF Len(names) = 0 THEN <<>>
    ELSE IF Len(names) = 1 THEN <<names[1]>>
    ELSE <<names[1], sep>> \o Join(sep, Tail(names))

\* the first position of tok in text, 0 when it has none
IndexOf(text, tok) ==
    IF \E i \in 1..Len(text) : text[i] = tok
    THEN CHOOSE i \in 1..Len(text) : text[i] = tok /\ \A j \in 1..(i - 1) : text[j] # tok
    ELSE 0

\* text.split(sep)
RECURSIVE SplitOn(_, _)
SplitOn(text, sep) ==
    IF IndexOf(text, sep) = 0 THEN <<text>>
    ELSE <<SubSeq(text, 1, IndexOf(text, sep) - 1)>>
         \o SplitOn(SubSeq(text, IndexOf(text, sep) + 1, Len(text)), sep)

\* the concatenation of a sequence of sequences
RECURSIVE Flatten(_)
Flatten(pages) ==
    IF Len(pages) = 0 THEN <<>> ELSE pages[1] \o Flatten(Tail(pages))

\* os.environ restricted to the two entries set_canvas_config writes
Environ(api_url, api_token) == [CANVAS_API_URL |-> api_url, CANVAS_API_TOKEN |-> api_token]
NoEnviron == Environ(None, None)

---------------------------------------------------------------------------
(* Exceptions *)

Exc(cls, text) == [cls |-> cls, str |-> text]

CanvasAPIErrorInit(cls, message, status_code, endpoint, response_data) ==
    LET m0 == <<"Canvas API Error: ">> \o message
        m1 == IF status_code # 0 THEN <<"[", ToString(status_code), "] ">> \o m0 ELSE m0
        m2 == IF Len(endpoint) > 0 THEN m1 \o <<" (endpoint: ">> \o endpoint \o <<")">> ELSE m1
    IN  [cls |-> cls, message |-> Str(message), status_code |-> status_code,
         endpoint |-> endpoint, response_data |-> response_data, str |-> m2]

CanvasAuthError(endpoint) ==
    CanvasAPIErrorInit("CanvasAuthError",
        <<"Authentication failed. Invalid or expired Canvas API token.">>,
        401, endpoint, None)

CanvasNotFoundError(resource, endpoint) ==
    CanvasAPIErrorInit("CanvasNotFoundError",
        <<"Resource not found: ">> \o resource, 404, endpoint, None)

CanvasValidationError(message, status_code, endpoint, errors) ==
    CanvasAPIErrorInit("CanvasValidationError",
        <<"Validation error: ">> \o message, status_code, endpoint, errors)

CanvasRateLimitError(retry_after, endpoint) ==
    CanvasAPIErrorInit("CanvasRateLimitError",
        IF Truthy(retry_after)
        THEN <<"Rate limit exceeded.", " Retry after ", ToString(retry_after.i), " seconds.">>
        ELSE <<"Rate limit exceeded.">>,
        429, endpoint,
        IF Truthy(retry_after)
        THEN PyDict(<<[k |-> "retry_after", v |-> retry_after]>>)
        ELSE None)

CanvasServerError(status_code, endpoint) ==
    CanvasAPIErrorInit("CanvasServerError",
        <<"Canvas server error. Please try again later.">>, status_code, endpoint, None)

CanvasAPIErrorClasses ==
    {"CanvasAPIError", "CanvasAuthError", "CanvasNotFoundError",
     "CanvasValidationError", "CanvasRateLimitError", "CanvasServerError"}

IsCanvasAPIError(e) == e.cls \in CanvasAPIErrorClasses
\* json.JSONDecodeError derives from ValueError
IsValueError(e) == e.cls \in {"ValueError", "JSONDecodeError"}

---------------------------------------------------------------------------
(* Tool classes and the registry *)

ListCoursesTool == [cls |-> "ListCoursesTool", name |-> "list_courses", category |-> "courses"]
GetCourseTool == [cls |-> "GetCourseTool", name |-> "get_course", category |-> "courses"]
GetCourseProgressTool ==
    [cls |-> "GetCourseProgressTool", name |-> "get_course_progress", category |-> "courses"]
GetCourseUsersTool ==
    [cls |-> "GetCourseUsersTool", name |-> "get_course_users", category |-> "courses"]
PreviewHtmlTool == [cls |-> "PreviewHtmlTool", name |-> "preview_html", category |-> "courses"]
GetDiscussionTopicTool ==
    [cls |-> "GetDiscussionTopicTool", name |-> "get_discussion_topic",
     category |-> "discussions"]

\* the @register_tool classes in the order their modules are imported
ImportOrder ==
    <<ListCoursesTool, GetCourseTool, GetCourseProgressTool, GetCourseUsersTool,
      PreviewHtmlTool, GetDiscussionTopicTool>>

ListToolNames(reg) == [i \in 1..Len(reg) |-> reg[i].name]

HasTool(reg, name) == \E i \in 1..Len(reg) : reg[i].name = name

RegistryGet(reg, name) ==
    IF ~HasTool(reg, name)
    THEN [raised |-> Exc("KeyError", <<"Tool '", name, "' not found. Available: ">>
                                      \o Join(", ", ListToolNames(reg)))]
    ELSE [raised |-> None,
          tool |-> reg[CHOOSE i \in 1..Len(reg) : reg[i].name = name]]

\* variant: register stores the tool without looking for its name in the registry
RegistryRegisterNoDuplicateCheck(reg, by_cat, tool) ==
    [raised |-> None, tools |-> Append(reg, tool), by_category |-> by_cat]

\* variant: the category index is updated before the name is checked
RegistryRegisterIndexFirst(reg, by_cat, tool) ==
    LET cats == IF tool.category \in DOMAIN by_cat
                THEN by_cat
                ELSE by_cat @@ (tool.category :> <<>>)
        indexed == [cats EXCEPT ![tool.category] = Append(@, tool.name)]
    IN  IF tool.name = ""
        THEN [raised |-> Exc("ValueError", <<"Tool ", tool.cls, " must define a name">>),
              tools |-> reg, by_category |-> indexed]
        ELSE IF HasTool(reg, tool.name)
        THEN [raised |-> Exc("ValueError", <<"Tool '", tool.name, "' is already registered">>),
              tools |-> reg, by_category |-> indexed]
        ELSE [raised |-> None, tools |-> Append(reg, tool), by_category |-> indexed]

RegistryRegister(reg, by_cat, tool) ==
    IF tool.name = ""
    THEN [raised |-> Exc("ValueError", <<"Tool ", tool.cls, " must define a name">>),
          tools |-> reg, by_category |-> by_cat]
    ELSE IF HasTool(reg, tool.name)
    THEN [raised |-> Exc("ValueError", <<"Tool '", tool.name, "' is already registered">>),
          tools |-> reg, by_category |-> by_cat]
    ELSE LET cats == IF tool.category \in DOMAIN by_cat
                     THEN by_cat
                     ELSE by_cat @@ (tool.category :> <<>>)
         IN  [raised |-> None,
              tools |-> Append(reg, tool),
              by_category |->
                  [cats EXCEPT ![tool.category] = Append(@, tool.name)]]

---------------------------------------------------------------------------
(* Argument validators *)

ValueError(text) == Exc("ValueError", text)

IsBlank(s) == \A i \in 1..Len(s) : s[i] = " "     \* not s.strip()

InList(v, l) == \E i \in 1..Len(l) : l[i] = v

\* first element of a list value that is not among `valid`, or None
FirstInvalid(lst, valid) ==
    IF \A i \in 1..Len(lst.l) : InList(lst.l[i], valid)
    THEN None
    ELSE lst.l[CHOOSE i \in 1..Len(lst.l) :
                  /\ ~InList(lst.l[i], valid)
                  /\ \A j \in 1..(i - 1) : InList(lst.l[j], valid)]

ListCoursesValidStates ==
    <<Str(<<"active">>), Str(<<"invited_or_pending">>), Str(<<"completed">>), Str(<<"all">>)>>

ListCoursesValidate(args) ==
    IF /\ DictHas(args, "enrollmentState")
       /\ ~InList(DictGet(args, "enrollmentState", None), ListCoursesValidStates)
    THEN ValueError(<<"enrollmentState must be one of: ">>
                    \o Join(", ", <<"active", "invited_or_pending", "completed", "all">>))
    ELSE IF DictHas(args, "state") /\ DictGet(args, "state", None).t # "list"
    THEN ValueError(<<"state must be a list">>)
    ELSE IF /\ DictHas(args, "perPage")
            /\ LET per_page == DictGet(args, "perPage", None)
               IN  \/ ~IsInt(per_page)
                   \/ IntValue(per_page) < 1
                   \/ IntValue(per_page) > 100
    THEN ValueError(<<"perPage must be an integer between 1 and 100">>)
    ELSE None

CourseIdValidate(args) ==
    IF ~DictHas(args, "courseId")
    THEN ValueError(<<"courseId is required">>)
    ELSE LET course_id == DictGet(args, "courseId", None)
         IN  IF ~IsInt(course_id) \/ IntValue(course_id) <= 0
             THEN ValueError(<<"courseId must be a positive integer">>)
             ELSE None

GetCourseValidate(args) == CourseIdValidate(args)

GetCourseProgressValidate(args) == CourseIdValidate(args)

UsersValidTypes ==
    <<Str(<<"student">>), Str(<<"teacher">>), Str(<<"ta">>), Str(<<"observer">>),
      Str(<<"designer">>)>>
UsersValidStates ==
    <<Str(<<"active">>), Str(<<"invited">>), Str(<<"rejected">>), Str(<<"completed">>),
      Str(<<"inactive">>)>>

GetCourseUsersValidate(args) ==
    LET et == DictGet(args, "enrollmentType", None)
        es == DictGet(args, "enrollmentState", None)
    IN  IF CourseIdValidate(args) # None THEN CourseIdValidate(args)
        ELSE IF DictHas(args, "enrollmentType") /\ et.t # "list"
        THEN ValueError(<<"enrollmentType must be a list">>)
        ELSE IF DictHas(args, "enrollmentType") /\ FirstInvalid(et, UsersValidTypes) # None
        THEN ValueError(<<"Invalid enrollment type '">>
                        \o Format(FirstInvalid(et, UsersValidTypes))
                        \o <<"'. Must be one of: ">>
                        \o Join(", ", <<"student", "teacher", "ta", "observer", "designer">>))
        ELSE IF DictHas(args, "enrollmentState") /\ es.t # "list"
        THEN ValueError(<<"enrollmentState must be a list">>)
        ELSE IF DictHas(args, "enrollmentState") /\ FirstInvalid(es, UsersValidStates) # None
        THEN ValueError(<<"Invalid enrollment state '">>
                        \o Format(FirstInvalid(es, UsersValidStates))
                        \o <<"'. Must be one of: ">>
                        \o Join(", ", <<"active", "invited", "rejected", "completed",
                                        "inactive">>))
        ELSE None

PreviewHtmlValidate(args) ==
    IF CourseIdValidate(args) # None THEN CourseIdValidate(args)
    ELSE IF ~DictHas(args, "html") THEN ValueError(<<"html is required">>)
    ELSE LET html == DictGet(args, "html", None)
         IN  IF html.t # "str" \/ IsBlank(html.s)
             THEN ValueError(<<"html must be a non-empty string">>)
             ELSE None

GetDiscussionTopicValidate(args) ==
    IF ~DictHas(args, "course_id") \/ ~DictHas(args, "topic_id")
    THEN ValueError(<<"course_id and topic_id are required">>)
    ELSE IF DictGet(args, "course_id", None).t \notin {"str", "int", "bool"}
    THEN ValueError(<<"course_id must be str or int">>)
    ELSE IF DictGet(args, "topic_id", None).t \notin {"str", "int", "bool"}
    THEN ValueError(<<"topic_id must be str or int">>)
    ELSE None

\* tool.validate_args(args): None, or the exception raised
ValidateArgs(tool, args) ==
    CASE tool.name = "list_courses"         -> ListCoursesValidate(args)
      [] tool.name = "get_course"           -> GetCourseValidate(args)
      [] tool.name = "get_course_progress"  -> GetCourseProgressValidate(args)
      [] tool.name = "get_course_users"     -> GetCourseUsersValidate(args)
      [] tool.name = "preview_html"         -> PreviewHtmlValidate(args)
      [] tool.name = "get_discussion_topic" -> GetDiscussionTopicValidate(args)
      [] OTHER                              -> None     \* BaseTool.validate_args: pass

---------------------------------------------------------------------------
(* CanvasAPIClient *)

\* URL text keeps every path separator "/" as a token of its own
\* variant: the base address keeps its trailing slashes
RStripSlashNot(url) == url

RECURSIVE RStripSlash(_)
RStripSlash(url) ==                          \* url.rstrip("/")
    IF Len(url) > 0 /\ url[Len(url)] = "/"
    THEN RStripSlash(SubSeq(url, 1, Len(url) - 1))
    ELSE url

ApiV1 == <<"/", "api", "/", "v1">>

EndsWith(url, suffix) ==
    /\ Len(url) >= Len(suffix)
    /\ SubSeq(url, Len(url) - Len(suffix) + 1, Len(url)) = suffix

CanvasAPIClient(api_url, api_token) ==
    LET stripped == RStripSlash(api_url)
    IN  [api_url |-> stripped,
         api_token |-> api_token,
         base_url |-> IF EndsWith(stripped, ApiV1) THEN stripped ELSE stripped \o ApiV1]

GetHeaders(client) ==
    ("Authorization" :> <<"Bearer ", client.api_token>>)
    @@ ("Content-Type" :> <<"application/json">>)
    @@ ("Accept" :> <<"application/json">>)

\* sep.join(parts) for parts that are texts
RECURSIVE JoinParts(_, _)
JoinParts(sep, parts) ==
    IF Len(parts) = 0 THEN <<>>
    ELSE IF Len(parts) = 1 THEN parts[1]
    ELSE parts[1] \o <<sep>> \o JoinParts(sep, Tail(parts))

\* variant: a list value is joined into one comma-delimited fragment
RECURSIVE QueryPartsJoined(_)
QueryPartsJoined(items) ==
    IF Len(items) = 0 THEN <<>>
    ELSE LET key == items[1].k
             value == items[1].v
             head == IF value.t = "list"
                     THEN << <<key, "=">>
                             \o JoinParts(",", [i \in 1..Len(value.l) |-> Format(value.l[i])]) >>
                     ELSE IF value # None THEN << <<key, "=">> \o Format(value) >>
                     ELSE <<>>
         IN  head \o QueryPartsJoined(Tail(items))

\* query_parts: one key=value fragment per item of a list value, one per other
\* value that is not None
RECURSIVE QueryParts(_)
QueryParts(items) ==
    IF Len(items) = 0 THEN <<>>
    ELSE LET key == items[1].k
             value == items[1].v
             head == IF value.t = "list"
                     THEN [i \in 1..Len(value.l) |-> <<key, "=">> \o Format(value.l[i])]
                     ELSE IF value # None THEN << <<key, "=">> \o Format(value) >>
                     ELSE <<>>
         IN  head \o QueryParts(Tail(items))

BuildUrl(client, endpoint, params) ==
    LET ep == IF Len(endpoint) > 0 /\ endpoint[1] = "/" THEN endpoint ELSE <<"/">> \o endpoint
        url == client.base_url \o ep
        query_parts == IF Truthy(params) THEN QueryParts(params.items) ELSE <<>>
    IN  IF Len(query_parts) > 0
        THEN url \o <<"?">> \o JoinParts("&", query_parts)
        ELSE url

IsSuccess(response) == response.status_code >= 200 /\ response.status_code <= 299

\* int(s) for a header value: the decimal numerals of the model, else ValueError
IsNumeral(s, n) == s = <<ToString(n)>>

MaxRetryAfter == 1   \* largest Retry-After numeral a server sends

ParseInt(s) ==
    IF \E n \in 0..MaxRetryAfter : IsNumeral(s, n)
    THEN [raised |-> None, value |-> PyInt(CHOOSE n \in 0..MaxRetryAfter : IsNumeral(s, n))]
    ELSE [raised |-> Exc("ValueError",
                         <<"invalid literal for int() with base 10: '">> \o s \o <<"'">>)]

UnknownError == <<"Unknown error">>

\* the exception _handle_error_response ends with
HandleErrorResponse(response, endpoint) ==
    LET status_code == response.status_code
        parsed == response.json
        \* the try block completes iff the body parses and error_data.get exists
        try_ok == parsed.ok /\ parsed.value.t = "dict"
        error_data_bound == parsed.ok
        error_data == parsed.value
        error_message ==
            IF try_ok
            THEN IF Truthy(DictGet(error_data, "message", None))
                 THEN DictGet(error_data, "message", None)
                 ELSE DictGet(error_data, "error", Str(UnknownError))
            ELSE IF Len(response.text) > 0 THEN Str(response.text) ELSE Str(UnknownError)
    IN  IF status_code = 401 THEN CanvasAuthError(endpoint)
        ELSE IF status_code = 404 THEN CanvasNotFoundError(endpoint, endpoint)
        ELSE IF status_code \in {400, 422}
        THEN IF ~error_data_bound
             THEN Exc("UnboundLocalError",
                      <<"local variable 'error_data' referenced before assignment">>)
             ELSE CanvasValidationError(Format(error_message), status_code, endpoint,
                      IF error_data.t = "dict" THEN error_data ELSE None)
        ELSE IF status_code = 429
        THEN LET retry_after == response.retry_after
             IN  IF ~Truthy(retry_after) THEN CanvasRateLimitError(None, endpoint)
                 ELSE IF ParseInt(retry_after.s).raised # None
                 THEN ParseInt(retry_after.s).raised
                 ELSE CanvasRateLimitError(ParseInt(retry_after.s).value, endpoint)
        ELSE IF status_code >= 500 THEN CanvasServerError(status_code, endpoint)
        ELSE CanvasAPIErrorInit("CanvasAPIError", Format(error_message), status_code,
                                endpoint, None)

RelNext == "rel=\"next\""

RECURSIVE StripTokens(_, _)
StripTokens(s, chars) ==                     \* s.strip(chars), token-wise
    IF Len(s) > 0 /\ s[1] \in chars THEN StripTokens(Tail(s), chars)
    ELSE IF Len(s) > 0 /\ s[Len(s)] \in chars
    THEN StripTokens(SubSeq(s, 1, Len(s) - 1), chars)
    ELSE s

\* variant: strict parsing, the marker counts only as the entry's first parameter
EntryHasRelNextStrict(link) ==
    Len(link) >= 2 /\ \E j \in 1..Len(link[2]) : link[2][j] = RelNext

\* a Link header value is the sequence of its comma-separated entries, an entry
\* the sequence of its semicolon-separated segments, a segment a token sequence
EntryHasRelNext(link) ==
    \E i \in 1..Len(link) : \E j \in 1..Len(link[i]) : link[i][j] = RelNext

\* variant: the marker searched for is rel=next without the quotes, which no
\* header carries
GetNextPageUrlUnquoted(response) == None

GetNextPageUrl(response) ==
    LET link_header == response.link
    IN  IF link_header.t = "None" \/ Len(link_header.entries) = 0 THEN None
        ELSE IF \A i \in 1..Len(link_header.entries) :
                    ~EntryHasRelNext(link_header.entries[i])
        THEN None
        ELSE LET link == link_header.entries[
                            CHOOSE i \in 1..Len(link_header.entries) :
                                /\ EntryHasRelNext(link_header.entries[i])
                                /\ \A j \in 1..(i - 1) :
                                       ~EntryHasRelNext(link_header.entries[j])]
                 url_part == StripTokens(link[1], {" "})
             IN  Str(StripTokens(url_part, {"<", ">"}))

ResponseJson(response) ==                    \* response.json()
    IF response.json.ok
    THEN [raised |-> None, value |-> response.json.value]
    ELSE [raised |-> Exc("JSONDecodeError", <<"Expecting value: line 1 column 1 (char 0)">>)]

\* variant: all_data = page_data, the page replaces what was accumulated
ExtendOverwrite(all_data, page_data) ==
    IF page_data.t = "list"
    THEN [raised |-> None, value |-> page_data]
    ELSE [raised |-> Exc("TypeError", <<"object is not iterable">>)]

\* all_data.extend(page_data)
Extend(all_data, page_data) ==
    IF page_data.t = "list"
    THEN [raised |-> None, value |-> PyList(all_data.l \o page_data.l)]
    ELSE IF page_data.t = "dict"
    THEN [raised |-> None, value |-> PyList(all_data.l \o DictKeys(page_data))]
    ELSE IF page_data.t = "str"
    THEN [raised |-> None, value |-> PyList(all_data.l \o page_data.s)]
    ELSE [raised |-> Exc("TypeError", <<"object is not iterable">>)]

Raise(e) == [kind |-> "raise", exc |-> e]
Return(v) == [kind |-> "return", value |-> v]
Await(req, fr) == [kind |-> "await", request |-> req, frame |-> fr]

HttpRequest(method, url, client) ==
    [method |-> method, url |-> url, headers |-> GetHeaders(client)]

DefaultPerPage == 100

\* get(): from entry to the first await
ClientGetStart(client, endpoint, params, paginate) ==
    LET given == IF params = None THEN PyDict(<<>>) ELSE params
        with_per_page ==
            IF paginate /\ ~DictHas(given, "per_page")
            THEN PyDict(Append(given.items, [k |-> "per_page", v |-> PyInt(DefaultPerPage)]))
            ELSE given
    IN  Await(HttpRequest("GET", BuildUrl(client, endpoint, with_per_page), client),
              [call |-> "get", endpoint |-> endpoint, paginate |-> paginate,
               first |-> TRUE, all_data |-> None])

\* variant: a request that ended in a server error or a transport failure is
\* sent again
ClientGetResumeRetrying(client, fr, response) ==
    IF response.kind = "transport_error" \/ response.status_code >= 500
    THEN Await(HttpRequest("GET", BuildUrl(client, fr.endpoint, None), client), fr)
    ELSE IF ~IsSuccess(response)
    THEN Raise(HandleErrorResponse(response, fr.endpoint))
    ELSE IF ResponseJson(response).raised # None
    THEN Raise(ResponseJson(response).raised)
    ELSE LET data == ResponseJson(response).value
             next_url == GetNextPageUrl(response)
         IN  IF fr.first
             THEN IF fr.paginate /\ data.t = "list"
                  THEN IF Truthy(next_url)
                       THEN Await(HttpRequest("GET", next_url.s, client),
                                  [fr EXCEPT !.first = FALSE, !.all_data = data])
                       ELSE Return(data)
                  ELSE Return(data)
             ELSE LET ext == Extend(fr.all_data, data)
                  IN  IF ext.raised # None THEN Raise(ext.raised)
                      ELSE IF Truthy(next_url)
                      THEN Await(HttpRequest("GET", next_url.s, client),
                                 [fr EXCEPT !.all_data = ext.value])
                      ELSE Return(ext.value)

\* get(): from the resumption with `response` to the next await, return or raise
ClientGetResume(client, fr, response) ==
    IF response.kind = "transport_error"
    THEN Raise(Exc("RequestError", <<"transport failure">>))
    ELSE IF ~IsSuccess(response)
    THEN Raise(HandleErrorResponse(response, fr.endpoint))
    ELSE IF ResponseJson(response).raised # None
    THEN Raise(ResponseJson(response).raised)
    ELSE LET data == ResponseJson(response).value
             next_url == GetNextPageUrl(response)
         IN  IF fr.first
             THEN IF fr.paginate /\ data.t = "list"
                  THEN IF Truthy(next_url)
                       THEN Await(HttpRequest("GET", next_url.s, client),
                                  [fr EXCEPT !.first = FALSE, !.all_data = data])
                       ELSE Return(data)
                  ELSE Return(data)
             ELSE LET ext == Extend(fr.all_data, data)
                  IN  IF ext.raised # None THEN Raise(ext.raised)
                      ELSE IF Truthy(next_url)
                      THEN Await(HttpRequest("GET", next_url.s, client),
                                 [fr EXCEPT !.all_data = ext.value])
                      ELSE Return(ext.value)

\* post(): from entry to the await
ClientPostStart(client, endpoint, params) ==
    Await(HttpRequest("POST", BuildUrl(client, endpoint, params), client),
          [call |-> "post", endpoint |-> endpoint, paginate |-> FALSE,
           first |-> TRUE, all_data |-> None])

\* post(): from the resumption to return or raise
ClientPostResume(client, fr, response) ==
    IF response.kind = "transport_error"
    THEN Raise(Exc("RequestError", <<"transport failure">>))
    ELSE IF ~IsSuccess(response)
    THEN Raise(HandleErrorResponse(response, fr.endpoint))
    ELSE IF ResponseJson(response).raised # None
    THEN Raise(ResponseJson(response).raised)
    ELSE Return(ResponseJson(response).value)

\* put(): from entry to the await; its resumption is that of post()
ClientPutStart(client, endpoint, params) ==
    Await(HttpRequest("PUT", BuildUrl(client, endpoint, params), client),
          [call |-> "put", endpoint |-> endpoint, paginate |-> FALSE,
           first |-> TRUE, all_data |-> None])

\* delete(): from entry to the await
ClientDeleteStart(client, endpoint, params) ==
    Await(HttpRequest("DELETE", BuildUrl(client, endpoint, params), client),
          [call |-> "delete", endpoint |-> endpoint, paginate |-> FALSE,
           first |-> TRUE, all_data |-> None])

\* delete(): from the resumption to return or raise
ClientDeleteResume(client, fr, response) ==
    IF response.kind = "transport_error"
    THEN Raise(Exc("RequestError", <<"transport failure">>))
    ELSE IF ~IsSuccess(response)
    THEN Raise(HandleErrorResponse(response, fr.endpoint))
    ELSE IF ResponseJson(response).raised # None
    THEN Return(PyDict(<<>>))
    ELSE Return(ResponseJson(response).value)

---------------------------------------------------------------------------
(* ToolContext and the tools' executors *)

\* `built` counts the CanvasAPIClient objects the context has constructed
ToolContext(api_url, api_token, args) ==
    [api_url |-> api_url, api_token |-> api_token, args |-> args, client |-> None,
     built |-> 0]

\* variant: every access of ctx.client constructs a client
WithClientAlwaysNew(c) ==
    [c EXCEPT !.client = CanvasAPIClient(c.api_url, c.api_token), !.built = @ + 1]

\* ctx.client: the context after the access (the client is built on first access)
WithClient(c) ==
    IF c.client = None
    THEN [c EXCEPT !.client = CanvasAPIClient(c.api_url, c.api_token), !.built = @ + 1]
    ELSE c

Item(k, v) == [k |-> k, v |-> v]

\* COURSE_INCLUDE_ALL
CourseIncludeAll ==
    [i \in 1..19 |-> Str(<< <<"syllabus_body", "term", "course_progress", "total_scores",
        "current_grading_period_scores", "grading_periods", "permissions", "sections",
        "favorites", "public_description", "total_students", "needs_grading_count",
        "account", "course_image", "banner_image", "concluded", "tabs",
        "passback_status", "observed_users">>[i] >>)]

\* include_params of list_courses and get_course
IncludeParams(args) ==
    IF ~Truthy(DictGet(args, "includeSyllabus", PyBool(TRUE)))
    THEN PyList(SelectSeq(CourseIncludeAll, LAMBDA x : x # Str(<<"syllabus_body">>)))
    ELSE PyList(CourseIncludeAll)

\* params[key] = value when cond holds
Param(cond, key, value) == IF cond THEN <<Item(key, value)>> ELSE <<>>

\* str(v).lower() of a value whose text is already lower-case unless it is a bool
StrLower(v) == IF v.t = "bool" THEN Str(IF v.b THEN <<"true">> ELSE <<"false">>)
               ELSE Str(Format(v))

BuildCourseParams(include, enrollment_state, enrollment_type, state, homeroom, per_page) ==
    PyDict(Param(Truthy(include), "include[]", include)
           \o Param(Truthy(enrollment_state), "enrollment_state", enrollment_state)
           \o Param(Truthy(enrollment_type), "enrollment_type", enrollment_type)
           \o Param(Truthy(state), "state[]", state)
           \o Param(homeroom # None, "homeroom", StrLower(homeroom))
           \o Param(Truthy(per_page), "per_page", per_page))

BuildCourseUserParams(enrollment_type, enrollment_state, include, per_page) ==
    PyDict(Param(Truthy(enrollment_type), "enrollment_type[]", enrollment_type)
           \o Param(Truthy(enrollment_state), "enrollment_state[]", enrollment_state)
           \o Param(Truthy(include), "include[]", include)
           \o Param(Truthy(per_page), "per_page", per_page))

BuildSingleCourseParams(include, teacher_limit) ==
    PyDict(Param(Truthy(include), "include[]", include)
           \o Param(Truthy(teacher_limit), "teacher_limit", teacher_limit))

CoursePath(course_id) == <<"/", "courses", "/">> \o Format(course_id)

\* execute(): from entry to its await
ExecuteStart(tool, c) ==
    LET client == WithClient(c).client
        args == c.args
    IN  CASE tool.name = "list_courses" ->
                ClientGetStart(client, <<"/", "courses">>,
                    BuildCourseParams(IncludeParams(args),
                        DictGet(args, "enrollmentState", Str(<<"active">>)),
                        None,
                        DictGet(args, "state", None),
                        DictGet(args, "homeroom", None),
                        DictGet(args, "perPage", PyInt(100))),
                    TRUE)
          [] tool.name = "get_course" ->
                ClientGetStart(client, CoursePath(DictGet(args, "courseId", None)),
                    BuildSingleCourseParams(IncludeParams(args),
                        DictGet(args, "teacherLimit", None)),
                    FALSE)
          [] tool.name = "get_course_progress" ->
                ClientGetStart(client,
                    CoursePath(DictGet(args, "courseId", None))
                        \o <<"/", "users", "/", "self", "/", "progress">>, None, FALSE)
          [] tool.name = "get_course_users" ->
                ClientGetStart(client,
                    CoursePath(DictGet(args, "courseId", None)) \o <<"/", "users">>,
                    BuildCourseUserParams(
                        DictGet(args, "enrollmentType", PyList(<<Str(<<"student">>)>>)),
                        DictGet(args, "enrollmentState", PyList(<<Str(<<"active">>)>>)),
                        PyList(<<Str(<<"enrollments">>)>>
                               \o (IF Truthy(DictGet(args, "includeEmail", PyBool(TRUE)))
                                   THEN <<Str(<<"email">>)>> ELSE <<>>)
                               \o (IF Truthy(DictGet(args, "includeAvatar", PyBool(TRUE)))
                                   THEN <<Str(<<"avatar_url">>)>> ELSE <<>>)),
                        DictGet(args, "perPage", PyInt(100))),
                    TRUE)
          [] tool.name = "preview_html" ->
                ClientPostStart(client,
                    CoursePath(DictGet(args, "courseId", None)) \o <<"/", "preview_html">>,
                    None)
          [] tool.name = "get_discussion_topic" ->
                ClientGetStart(client,
                    CoursePath(DictGet(args, "course_id", None))
                        \o <<"/", "discussion_topics", "/">>
                        \o Format(DictGet(args, "topic_id", None)), None, FALSE)

PyLen(v) ==                                  \* len(v)
    CASE v.t = "list" -> [raised |-> None, value |-> PyInt(Len(v.l))]
      [] v.t = "dict" -> [raised |-> None, value |-> PyInt(Len(v.items))]
      [] v.t = "str"  -> [raised |-> None, value |-> PyInt(Len(v.s))]
      [] OTHER        -> [raised |-> Exc("TypeError", <<"object has no len()">>)]

AttributeError == Exc("AttributeError", <<"object has no attribute 'get'">>)

\* variant: the result carries the courses without their count
ListCoursesFinishNoTotal(args, courses) ==
    Return(PyDict(<<Item("courses", courses)>>))

ListCoursesFinish(args, courses) ==
    IF PyLen(courses).raised # None THEN Raise(PyLen(courses).raised)
    ELSE Return(PyDict(<<
            Item("courses", courses),
            Item("total", PyLen(courses).value),
            Item("filters", PyDict(<<
                Item("enrollmentState", DictGet(args, "enrollmentState", Str(<<"active">>))),
                Item("state", DictGet(args, "state", None)),
                Item("homeroom", DictGet(args, "homeroom", None))>>))>>))

\* variant: execute() falls off its end without returning the dictionary
GetCourseFinishNoReturn(args, course) == Return(None)

GetCourseFinish(args, course) == Return(PyDict(<<Item("course", course)>>))

\* round(completed / count * 100, 2), in hundredths of a percent
Percentage(completed, count) == (2 * completed * 10000 + count) \div (2 * count)

GetCourseProgressFinish(args, progress) ==
    IF progress.t # "dict" THEN Raise(AttributeError)
    ELSE LET requirement_count == DictGet(progress, "requirement_count", PyInt(0))
             completed_count == DictGet(progress, "requirement_completed_count", PyInt(0))
         IN  IF ~IsInt(requirement_count)
             THEN Raise(Exc("TypeError", <<"'>' not supported">>))
             ELSE IF IntValue(requirement_count) > 0 /\ ~IsInt(completed_count)
             THEN Raise(Exc("TypeError", <<"unsupported operand type(s) for /">>))
             ELSE Return(PyDict(<<
                    Item("courseId", DictGet(args, "courseId", None)),
                    Item("progress", progress),
                    Item("completionPercentage",
                         [t |-> "float",
                          hundredths |->
                              IF IntValue(requirement_count) > 0
                              THEN Percentage(IntValue(completed_count),
                                              IntValue(requirement_count))
                              ELSE 0])>>))

GetCourseUsersFinish(args, users) ==
    IF PyLen(users).raised # None THEN Raise(PyLen(users).raised)
    ELSE Return(PyDict(<<
            Item("courseId", DictGet(args, "courseId", None)),
            Item("users", users),
            Item("total", PyLen(users).value),
            Item("filters", PyDict(<<
                Item("enrollmentType",
                     DictGet(args, "enrollmentType", PyList(<<Str(<<"student">>)>>))),
                Item("enrollmentState",
                     DictGet(args, "enrollmentState", PyList(<<Str(<<"active">>)>>)))>>))>>))

PreviewHtmlFinish(args, result) ==
    IF result.t # "dict" THEN Raise(AttributeError)
    ELSE Return(PyDict(<<
            Item("courseId", DictGet(args, "courseId", None)),
            Item("html", DictGet(result, "html", DictGet(args, "html", None))),
            Item("originalHtml", DictGet(args, "html", None))>>))

GetDiscussionTopicFinish(args, topic) == Return(PyDict(<<Item("discussion_topic", topic)>>))

\* execute(): from the value its client call returned to its own return or raise
ExecuteFinish(tool, args, value) ==
    CASE tool.name = "list_courses"         -> ListCoursesFinish(args, value)
      [] tool.name = "get_course"           -> GetCourseFinish(args, value)
      [] tool.name = "get_course_progress"  -> GetCourseProgressFinish(args, value)
      [] tool.name = "get_course_users"     -> GetCourseUsersFinish(args, value)
      [] tool.name = "preview_html"         -> PreviewHtmlFinish(args, value)
      [] tool.name = "get_discussion_topic" -> GetDiscussionTopicFinish(args, value)

\* the client call of execute(), resumed with `response`
ClientResume(client, fr, response) ==
    IF fr.call \in {"post", "put"}
    THEN ClientPostResume(client, fr, response)
    ELSE IF fr.call = "delete"
    THEN ClientDeleteResume(client, fr, response)
    ELSE ClientGetResume(client, fr, response)

---------------------------------------------------------------------------
(* The dispatcher: main.py call_tool *)

ToolResponse(result, error) == [result |-> result, error |-> error]

AppDebug == FALSE    \* app.debug of FastAPI(title=..., description=..., version=...)

HTTPException(status_code, detail) ==
    [cls |-> "HTTPException", status_code |-> status_code, detail |-> detail,
     str |-> <<ToString(status_code), ": ">> \o detail]

\* variant: the 404 detail of debug_tool, which lists no names
ToolNotFoundNoNames(reg, name) ==
    HTTPException(404, <<"Tool '", name, "' not found">>)

ToolNotFound(reg, name) ==
    HTTPException(404,
        <<"Tool '", name, "' not found. Available tools: ">>
            \o Join(", ", ListToolNames(reg)))

\* the classes of the model that derive from Exception
ExceptionClasses ==
    CanvasAPIErrorClasses \cup
    {"ValueError", "JSONDecodeError", "KeyError", "TypeError", "AttributeError",
     "UnboundLocalError", "RequestError", "HTTPException"}

\* variant: call_tool without its last clause, `except Exception`
ExceptionToResponseNoCatchAll(e) ==
    IF IsCanvasAPIError(e)
    THEN ToolResponse(None,
            Str(<<"Canvas API Error [">>
                \o (IF e.status_code # 0 THEN <<ToString(e.status_code)>> ELSE <<"Unknown">>)
                \o <<"]: ">> \o e.message.s))
    ELSE IF IsValueError(e)
    THEN ToolResponse(None, Str(<<"Invalid arguments: ">> \o e.str))
    ELSE [propagated |-> e]

\* the except clauses of call_tool; an exception none of them matches leaves call_tool
ExceptionToResponse(e) ==
    IF IsCanvasAPIError(e)
    THEN ToolResponse(None,
            Str(<<"Canvas API Error [">>
                \o (IF e.status_code # 0 THEN <<ToString(e.status_code)>> ELSE <<"Unknown">>)
                \o <<"]: ">> \o e.message.s))
    ELSE IF IsValueError(e)
    THEN ToolResponse(None, Str(<<"Invalid arguments: ">> \o e.str))
    ELSE IF e.cls \in ExceptionClasses
    THEN ToolResponse(None,
            Str(<<"Unexpected error: ">>
                \o (IF AppDebug
                    THEN <<"Traceback (most recent call last):", e.cls, ": ">> \o e.str
                    ELSE e.str)))
    ELSE [propagated |-> e]

\* variant: run() enters execute() without calling validate_args
CallToolStartNoValidation(reg, req) ==
    LET lookup == RegistryGet(reg, req.tool)
        c == ToolContext(req.canvasApiUrl, req.canvasApiToken, req.args)
    IN  IF lookup.raised # None
        THEN [pc |-> "done", ctx |-> None, frame |-> None, sent |-> <<>>,
              validated |-> FALSE, raised |-> ToolNotFound(reg, req.tool),
              envelope |-> ExceptionToResponse(ToolNotFound(reg, req.tool))]
        ELSE LET st == ExecuteStart(lookup.tool, c)
             IN  [pc |-> "awaiting", ctx |-> WithClient(c), frame |-> st.frame,
                  sent |-> <<st.request>>, validated |-> FALSE, raised |-> None,
                  envelope |-> None]

\* variant: the validator runs before the context is constructed
CallToolStartValidateFirst(reg, req) ==
    LET lookup == RegistryGet(reg, req.tool)
        c == ToolContext(req.canvasApiUrl, req.canvasApiToken, req.args)
    IN  IF lookup.raised # None
        THEN [pc |-> "done", ctx |-> None, frame |-> None, sent |-> <<>>,
              validated |-> FALSE, raised |-> ToolNotFound(reg, req.tool),
              envelope |-> ExceptionToResponse(ToolNotFound(reg, req.tool))]
        ELSE IF ValidateArgs(lookup.tool, req.args) # None
        THEN [pc |-> "done", ctx |-> None, frame |-> None, sent |-> <<>>,
              validated |-> FALSE, raised |-> ValidateArgs(lookup.tool, req.args),
              envelope |-> ExceptionToResponse(ValidateArgs(lookup.tool, req.args))]
        ELSE LET st == ExecuteStart(lookup.tool, c)
             IN  [pc |-> "awaiting", ctx |-> WithClient(c), frame |-> st.frame,
                  sent |-> <<st.request>>, validated |-> TRUE, raised |-> None,
                  envelope |-> None]

\* variant: the client requests the second page together with the first
\* instead of waiting for the first response and its continuation link
CallToolStartTwoPagesAtOnce(reg, req) ==
    LET lookup == RegistryGet(reg, req.tool)
        c == ToolContext(req.canvasApiUrl, req.canvasApiToken, req.args)
    IN  IF lookup.raised # None
        THEN [pc |-> "done", ctx |-> None, frame |-> None, sent |-> <<>>,
              validated |-> FALSE, raised |-> ToolNotFound(reg, req.tool),
              envelope |-> ExceptionToResponse(ToolNotFound(reg, req.tool))]
        ELSE IF ValidateArgs(lookup.tool, c.args) # None
        THEN [pc |-> "done", ctx |-> c, frame |-> None, sent |-> <<>>,
              validated |-> FALSE, raised |-> ValidateArgs(lookup.tool, c.args),
              envelope |-> ExceptionToResponse(ValidateArgs(lookup.tool, c.args))]
        ELSE LET st == ExecuteStart(lookup.tool, c)
             IN  [pc |-> "awaiting", ctx |-> WithClient(c), frame |-> st.frame,
                  sent |-> IF st.frame.paginate
                           THEN <<st.request,
                                  [st.request EXCEPT !.url = @ \o <<"&", "page", "=", "2">>]>>
                           ELSE <<st.request>>,
                  validated |-> TRUE, raised |-> None, envelope |-> None]

\* call_tool from entry to its first await, or to its return
CallToolStart(reg, req) ==
    LET lookup == RegistryGet(reg, req.tool)
        c == ToolContext(req.canvasApiUrl, req.canvasApiToken, req.args)
    IN  IF lookup.raised # None
        THEN [pc |-> "done", ctx |-> None, frame |-> None, sent |-> <<>>,
              validated |-> FALSE, raised |-> ToolNotFound(reg, req.tool),
              envelope |-> ExceptionToResponse(ToolNotFound(reg, req.tool))]
        ELSE IF ValidateArgs(lookup.tool, c.args) # None
        THEN [pc |-> "done", ctx |-> c, frame |-> None, sent |-> <<>>,
              validated |-> FALSE, raised |-> ValidateArgs(lookup.tool, c.args),
              envelope |-> ExceptionToResponse(ValidateArgs(lookup.tool, c.args))]
        ELSE LET st == ExecuteStart(lookup.tool, c)
             IN  [pc |-> "awaiting", ctx |-> WithClient(c), frame |-> st.frame,
                  sent |-> <<st.request>>, validated |-> TRUE, raised |-> None,
                  envelope |-> None]

\* call_tool from the resumption with `response` to its next await, or to its return
CallToolResume(reg, req, c, fr, response) ==
    LET tool == RegistryGet(reg, req.tool).tool
        step == ClientResume(c.client, fr, response)
        fin == ExecuteFinish(tool, c.args, step.value)
    IN  IF step.kind = "await"
        THEN [pc |-> "awaiting", frame |-> step.frame, request |-> step.request,
              outcome |-> None, raised |-> None, envelope |-> None]
        ELSE IF step.kind = "raise"
        THEN [pc |-> "done", frame |-> fr, request |-> None, outcome |-> step,
              raised |-> step.exc, envelope |-> ExceptionToResponse(step.exc)]
        ELSE IF fin.kind = "raise"
        THEN [pc |-> "done", frame |-> fr, request |-> None, outcome |-> step,
              raised |-> fin.exc, envelope |-> ExceptionToResponse(fin.exc)]
        ELSE [pc |-> "done", frame |-> fr, request |-> None, outcome |-> step,
              raised |-> None, envelope |-> ToolResponse(fin.value, None)]

---------------------------------------------------------------------------
(* Inputs: requests and server behaviour *)

\* the pages a server serves: empty, one item, two items, items repeated across pages
Pages == {<<>>, <<"a">>, <<"b">>, <<"a", "b">>}

\* (canvasApiUrl, canvasApiToken) pairs of two users
Credentials ==
    {[canvasApiUrl |-> <<"https://canvas.test">>, canvasApiToken |-> "tokA"],
     [canvasApiUrl |-> <<"https://canvas.test", "/", "api", "/", "v1", "/">>,
      canvasApiToken |-> "tokB"]}

CourseIdSamples ==
    {PyDict(<<>>),
     PyDict(<<Item("courseId", PyInt(1))>>),
     PyDict(<<Item("courseId", PyInt(0))>>),
     PyDict(<<Item("courseId", Str(<<"1">>))>>)}

\* argument mappings sent for a tool: the keys its validator and executor read
ArgSamples(name) ==
    CASE name = "list_courses" ->
            {PyDict(<<>>),
             PyDict(<<Item("enrollmentState", Str(<<"completed">>))>>),
             PyDict(<<Item("enrollmentState", Str(<<"bogus">>))>>),
             PyDict(<<Item("state", Str(<<"available">>))>>),
             PyDict(<<Item("perPage", PyInt(0))>>)}
      [] name = "get_course_users" ->
            CourseIdSamples \cup
            {PyDict(<<Item("courseId", PyInt(1)),
                      Item("enrollmentType",
                           PyList(<<Str(<<"student">>), Str(<<"alien">>)>>))>>),
             PyDict(<<Item("courseId", PyInt(1)),
                      Item("enrollmentType", PyList(<<Str(<<"ta">>)>>))>>),
             PyDict(<<Item("courseId", PyInt(1)),
                      Item("enrollmentState", Str(<<"active">>))>>)}
      [] name = "preview_html" ->
            CourseIdSamples \cup
            {PyDict(<<Item("courseId", PyInt(1)), Item("html", Str(<<"<p>hi</p>">>))>>),
             PyDict(<<Item("courseId", PyInt(1)), Item("html", Str(<<" ">>))>>)}
      [] name = "get_discussion_topic" ->
            {PyDict(<<>>),
             PyDict(<<Item("course_id", PyInt(1)), Item("topic_id", Str(<<"7">>))>>),
             PyDict(<<Item("course_id", PyInt(1)), Item("topic_id", None)>>)}
      [] OTHER -> CourseIdSamples

ToolNameSamples ==
    {ImportOrder[i].name : i \in 1..Len(ImportOrder)} \cup {"no_such_tool"}

ToolRequest(tool, args, cred) ==
    [tool |-> tool, args |-> args,
     canvasApiUrl |-> cred.canvasApiUrl, canvasApiToken |-> cred.canvasApiToken]

ToolRequests ==
    UNION {{ToolRequest(n, a, cred) : a \in ArgSamples(n), cred \in Credentials} :
           n \in ToolNameSamples}

LinkHeader(entries) == [t |-> "link", entries |-> entries]

CursorUrl(k) ==
    <<"https://canvas.test", "/", "api", "/", "v1", "/", "courses", "?page=", ToString(k)>>

PrevEntry(k) == << <<"<">> \o CursorUrl(k) \o <<">">>, <<" ", "rel=\"prev\"">> >>
NextEntry(k) == << <<" ", "<">> \o CursorUrl(k) \o <<">">>, <<" ", RelNext>> >>

\* Link headers of the k-th response of a call: a server's chain of pages is
\* finite, and past the first response it continues a chain only from a list page
LinkSamples(k, body) ==
    {None, LinkHeader(<<>>), LinkHeader(<<PrevEntry(k - 1)>>)}
    \cup (IF k < MaxPages /\ (k = 1 \/ (body.json.ok /\ body.json.value.t = "list"))
          THEN {LinkHeader(<<PrevEntry(k - 1), NextEntry(k + 1)>>)}
          ELSE {})

Parsed(v) == [ok |-> TRUE, value |-> v]
NotJson == [ok |-> FALSE, value |-> None]

Body(text, json) == [text |-> text, json |-> json]

ListBody(p) == Body(<<"[">> \o Join(",", p) \o <<"]">>, Parsed(PyList(p)))

SuccessBodies ==
    {ListBody(p) : p \in Pages}
    \cup {Body(<<"{}">>, Parsed(PyDict(<<>>))),
          Body(<<"{requirement_count:2,requirement_completed_count:1}">>,
               Parsed(PyDict(<<Item("requirement_count", PyInt(2)),
                               Item("requirement_completed_count", PyInt(1))>>))),
          Body(<<"{html:<p>ok</p>}">>, Parsed(PyDict(<<Item("html", Str(<<"<p>ok</p>">>))>>))),
          Body(<<"7">>, Parsed(PyInt(7))),
          Body(<<"<html>maintenance</html>">>, NotJson),
          Body(<<>>, NotJson)}

ErrorBodies ==
    {Body(<<"{message:m}">>, Parsed(PyDict(<<Item("message", Str(<<"m">>))>>))),
     Body(<<"{error:e}">>, Parsed(PyDict(<<Item("error", Str(<<"e">>))>>))),
     Body(<<"{message:,error:e}">>,
          Parsed(PyDict(<<Item("message", Str(<<>>)), Item("error", Str(<<"e">>))>>))),
     Body(<<"{}">>, Parsed(PyDict(<<>>))),
     Body(<<"[1]">>, Parsed(PyList(<<"1">>))),
     Body(<<"7">>, Parsed(PyInt(7))),
     Body(<<"<html>bad gateway</html>">>, NotJson),
     Body(<<>>, NotJson)}

FailStatuses == {302, 400, 401, 403, 404, 422, 429, 500, 503}

RetryAfterSamples ==
    {None, Str(<<>>), Str(<<"soon">>)} \cup {Str(<<ToString(n)>>) : n \in 0..MaxRetryAfter}

HttpResponse(status_code, body, link, retry_after) ==
    [kind |-> "http", status_code |-> status_code, text |-> body.text, json |-> body.json,
     link |-> link, retry_after |-> retry_after]

TransportError ==
    [kind |-> "transport_error", status_code |-> 0, text |-> <<>>, json |-> NotJson,
     link |-> None, retry_after |-> None]

\* what a server may answer to the k-th request of a call
Responses(k) ==
    UNION {{HttpResponse(200, b, l, None) : l \in LinkSamples(k, b)} : b \in SuccessBodies}
    \cup {HttpResponse(s, b, None, None) : s \in FailStatuses \ {429}, b \in ErrorBodies}
    \cup {HttpResponse(429, b, None, r) : b \in ErrorBodies, r \in RetryAfterSamples}
    \cup {TransportError}

---------------------------------------------------------------------------
(* Actions *)

EmptyIndex == [c \in {} |-> <<>>]

Init ==
    /\ tools = <<>>
    /\ tools_by_category = EmptyIndex
    /\ imported = 0
    /\ pc = "import"
    /\ request = None
    /\ ctx = None
    /\ frame = None
    /\ sent = <<>>
    /\ served = <<>>
    /\ validated = FALSE
    /\ outcome = None
    /\ raised = None
    /\ envelope = None
    /\ app = "main"
    /\ environ = NoEnviron

\* startup: the next tool module is imported and @register_tool registers its class;
\* an exception raised by register aborts the import of the application
Import ==
    /\ pc = "import"
    /\ imported < Len(ImportOrder)
    /\ LET r == RegistryRegister(tools, tools_by_category, ImportOrder[imported + 1])
       IN  /\ tools' = r.tools
           /\ tools_by_category' = r.by_category
           /\ imported' = imported + 1
           /\ pc' = IF r.raised # None THEN "crashed"
                    ELSE IF imported + 1 = Len(ImportOrder) THEN "idle"
                    ELSE "import"
    /\ UNCHANGED <<app, environ, request, ctx, frame, sent, served, validated, outcome, raised, envelope>>

\* POST /tools/call arrives: call_tool runs to its first await or to its return
Dispatch(req) ==
    /\ pc = "idle"
    /\ LET r == CallToolStart(tools, req)
       IN  /\ request' = req
           /\ pc' = r.pc
           /\ ctx' = r.ctx
           /\ frame' = r.frame
           /\ sent' = r.sent
           /\ validated' = r.validated
           /\ raised' = r.raised
           /\ envelope' = r.envelope
    /\ served' = <<>>
    /\ outcome' = None
    /\ UNCHANGED <<app, environ, tools, tools_by_category, imported>>

\* the awaited HTTP call completes: call_tool runs to its next await or to its return
Respond(response) ==
    /\ pc = "awaiting"
    /\ LET r == CallToolResume(tools, request, ctx, frame, response)
       IN  /\ pc' = r.pc
           /\ frame' = r.frame
           /\ sent' = IF r.pc = "awaiting" THEN Append(sent, r.request) ELSE sent
           /\ outcome' = r.outcome
           /\ raised' = r.raised
           /\ envelope' = r.envelope
    /\ served' = Append(served, response)
    /\ UNCHANGED <<app, environ, tools, tools_by_category, imported, request, ctx, validated>>

\* the ToolResponse is sent; the ToolContext and its client are discarded
Reply ==
    /\ pc = "done"
    /\ pc' = "idle"
    /\ request' = None
    /\ ctx' = None
    /\ frame' = None
    /\ sent' = <<>>
    /\ served' = <<>>
    /\ validated' = FALSE
    /\ outcome' = None
    /\ raised' = None
    /\ envelope' = None
    /\ UNCHANGED <<app, environ, tools, tools_by_category, imported>>

Next ==
    \/ Import
    \/ \E req \in ToolRequests : Dispatch(req)
    \/ \E response \in Responses(Len(served) + 1) : Respond(response)
    \/ Reply

Spec == Init /\ [][Next]_vars

---------------------------------------------------------------------------
(* The registry under arbitrary registrations *)

MaxRegisterCalls == 4   \* register calls made in one process

\* classes handed to register: two of the repository, a second class that takes
\* the name of the first, and a class that keeps BaseTool's default name ""
ToolClassSamples ==
    {ListCoursesTool, GetCourseTool,
     [cls |-> "ListCoursesCopyTool", name |-> "list_courses", category |-> "general"],
     [cls |-> "UnnamedTool", name |-> "", category |-> "general"]}

RegistryRequests ==
    {ToolRequest(n, a, [canvasApiUrl |-> <<"https://canvas.test">>, canvasApiToken |-> "tokA"]) :
        n \in {"list_courses", "get_course", "no_such_tool"},
        a \in {PyDict(<<>>), PyDict(<<Item("courseId", PyInt(1))>>)}}

RegistryResponses ==
    {HttpResponse(200, ListBody(<<"a">>), None, None),
     HttpResponse(200, Body(<<"{}">>, Parsed(PyDict(<<>>))), None, None),
     HttpResponse(404, Body(<<>>, NotJson), None, None)}

\* variant: the exception of register is swallowed and startup goes on
RegisterToolSwallowed(tool_class) ==
    /\ pc \in {"import", "crashed"}
    /\ imported < MaxRegisterCalls
    /\ LET r == RegistryRegister(tools, tools_by_category, tool_class)
       IN  /\ tools' = r.tools
           /\ tools_by_category' = r.by_category
           /\ raised' = r.raised
    /\ imported' = imported + 1
    /\ pc' = pc
    /\ UNCHANGED <<app, environ, request, ctx, frame, sent, served, validated, outcome, envelope>>

\* @register_tool applied to a class: the ValueError of register propagates out of
\* the importing module, so the application never finishes its startup
RegisterTool(tool_class) ==
    /\ pc \in {"import", "crashed"}
    /\ imported < MaxRegisterCalls
    /\ LET r == RegistryRegister(tools, tools_by_category, tool_class)
       IN  /\ tools' = r.tools
           /\ tools_by_category' = r.by_category
           /\ raised' = r.raised
           /\ pc' = IF r.raised # None THEN "crashed" ELSE pc
    /\ imported' = imported + 1
    /\ UNCHANGED <<app, environ, request, ctx, frame, sent, served, validated, outcome, envelope>>

\* every import of main.py has run without an exception: the application serves
ImportsDone ==
    /\ pc = "import"
    /\ pc' = "idle"
    /\ UNCHANGED <<app, environ, tools, tools_by_category, imported, request, ctx, frame, sent, served,
                   validated, outcome, raised, envelope>>

RegistryNext ==
    \/ \E tool_class \in ToolClassSamples : RegisterTool(tool_class)
    \/ ImportsDone
    \/ \E req \in RegistryRequests : Dispatch(req)
    \/ \E response \in RegistryResponses : Respond(response)
    \/ Reply

RegistrySpec == Init /\ [][RegistryNext]_vars

---------------------------------------------------------------------------
(* The client in the hands of a tool body *)

MaxCalls == 2   \* client calls a tool body makes with one context

Host == <<"https://canvas.test">>

\* base addresses a user configures, with the token that goes with each
ContextSamples ==
    {[api_url |-> Host \o tail, api_token |-> "tokA"] :
        tail \in {<<>>, <<"/">>, <<"/", "/">>}}
    \cup {[api_url |-> Host \o ApiV1 \o tail, api_token |-> "tokB"] :
        tail \in {<<>>, <<"/">>, <<"/", "/">>}}

EndpointSamples == {<<"courses">>, <<"/", "courses">>, <<"/", "/", "courses">>}

ListParams ==
    {PyDict(<<Item("include[]", PyList(<<Str(<<"v1">>), Str(<<"v2">>), Str(<<"v3">>)>>))>>),
     PyDict(<<Item("state[]", PyList(<<Str(<<"x">>), Str(<<"x">>)>>))>>),
     PyDict(<<Item("include[]", PyList(<<>>))>>)}

MixedParams ==
    PyDict(<<Item("a", PyInt(1)),
             Item("state[]", PyList(<<Str(<<"y">>), Str(<<"x">>)>>)),
             Item("b", None),
             Item("include[]", PyList(<<Str(<<"v1">>)>>)),
             Item("per_page", PyInt(10))>>)

MethodSamples == {"get", "get_all", "post", "put", "delete"}

ClientCall(method, endpoint, params) ==
    [method |-> method, endpoint |-> endpoint, params |-> params]

\* the calls a tool body makes: every method with every endpoint spelling, and
\* parameter mappings with list values, repeated values, empty lists and None
CallSamples ==
    {ClientCall(m, e, None) : m \in MethodSamples, e \in EndpointSamples}
    \cup {ClientCall(m, <<"/", "courses">>, p) :
             m \in {"get", "get_all"}, p \in ListParams \cup {PyDict(<<>>)}}
    \cup {ClientCall(m, <<"/", "courses">>, MixedParams) : m \in MethodSamples}

\* a continuation link that leaves the host of the client
ForeignEntry(k) ==
    << <<"<", "https://elsewhere.test", "/", "api", "/", "v1", "/", "courses",
          "?page=", ToString(k), ">">>, <<" ", RelNext>> >>

ClientResponses(k) ==
    {HttpResponse(200, ListBody(<<"a">>), l, None) :
        l \in {None} \cup (IF k < MaxPages
                           THEN {LinkHeader(<<NextEntry(k + 1)>>),
                                 LinkHeader(<<ForeignEntry(k + 1)>>)}
                           ELSE {})}
    \cup {HttpResponse(200, Body(<<"{}">>, Parsed(PyDict(<<>>))), None, None),
          HttpResponse(200, Body(<<>>, NotJson), None, None),
          HttpResponse(204, Body(<<>>, NotJson), None, None),
          HttpResponse(400, Body(<<"{message:m}">>,
                                 Parsed(PyDict(<<Item("message", Str(<<"m">>))>>))), None, None),
          HttpResponse(400, Body(<<"<html>bad gateway</html>">>, NotJson), None, None),
          HttpResponse(404, Body(<<"{}">>, Parsed(PyDict(<<>>))), None, None),
          HttpResponse(429, Body(<<>>, NotJson), None, Str(<<"1">>)),
          HttpResponse(500, Body(<<>>, NotJson), None, None),
          TransportError}

ClientInit ==
    /\ tools = <<>>
    /\ tools_by_category = EmptyIndex
    /\ imported = 0
    /\ pc = "idle"
    /\ request = None
    /\ ctx = None
    /\ frame = None
    /\ sent = <<>>
    /\ served = <<>>
    /\ validated = FALSE
    /\ outcome = None
    /\ raised = None
    /\ envelope = None
    /\ app = "main"
    /\ environ = NoEnviron

\* call_tool creates the context of an invocation
NewContext(sample) ==
    /\ pc = "idle"
    /\ ctx' = ToolContext(sample.api_url, sample.api_token, PyDict(<<>>))
    /\ pc' = "running"
    /\ UNCHANGED <<app, environ, tools, tools_by_category, imported, request, frame, sent, served,
                   validated, outcome, raised, envelope>>

\* the tool body reads ctx.client and awaits one of its methods
Call(method, endpoint, params) ==
    /\ pc = "running"
    /\ (IF request = None THEN 0 ELSE request.nth) < MaxCalls
    /\ LET c == WithClient(ctx)
           st == CASE method = "get"     -> ClientGetStart(c.client, endpoint, params, FALSE)
                   [] method = "get_all" -> ClientGetStart(c.client, endpoint, params, TRUE)
                   [] method = "post"    -> ClientPostStart(c.client, endpoint, params)
                   [] method = "put"     -> ClientPutStart(c.client, endpoint, params)
                   [] method = "delete"  -> ClientDeleteStart(c.client, endpoint, params)
       IN  /\ ctx' = c
           /\ frame' = st.frame
           /\ sent' = <<st.request>>
    /\ request' = [method |-> method, endpoint |-> endpoint, params |-> params,
                   nth |-> IF request = None THEN 1 ELSE request.nth + 1]
    /\ served' = <<>>
    /\ outcome' = None
    /\ pc' = "awaiting"
    /\ UNCHANGED <<app, environ, tools, tools_by_category, imported, validated, raised, envelope>>

\* the awaited request completes: the method runs to its next await, return or raise
ClientRespond(response) ==
    /\ pc = "awaiting"
    /\ LET step == ClientResume(ctx.client, frame, response)
       IN  IF step.kind = "await"
           THEN /\ frame' = step.frame
                /\ sent' = Append(sent, step.request)
                /\ outcome' = None
                /\ pc' = "awaiting"
           ELSE /\ frame' = frame
                /\ sent' = sent
                /\ outcome' = step
                /\ pc' = "running"
    /\ served' = Append(served, response)
    /\ UNCHANGED <<app, environ, tools, tools_by_category, imported, request, ctx, validated, raised,
                   envelope>>

\* the invocation ends: its context and client are discarded
Discard ==
    /\ pc = "running"
    /\ pc' = "idle"
    /\ request' = None
    /\ ctx' = None
    /\ frame' = None
    /\ sent' = <<>>
    /\ served' = <<>>
    /\ outcome' = None
    /\ UNCHANGED <<app, environ, tools, tools_by_category, imported, validated, raised, envelope>>

ClientNext ==
    \/ \E sample \in ContextSamples : NewContext(sample)
    \/ \E call \in CallSamples : Call(call.method, call.endpoint, call.params)
    \/ \E response \in ClientResponses(Len(served) + 1) : ClientRespond(response)
    \/ Discard

ClientSpec == ClientInit /\ [][ClientNext]_vars

---------------------------------------------------------------------------
(* Concurrent invocations of call_tool: the per-invocation variables are
   indexed by the invocation *)

Invocations == {1, 2}

\* the registry once every import of tools/__init__.py has run
RECURSIVE RegisterAll(_, _, _)
RegisterAll(reg, by_cat, classes) ==
    IF Len(classes) = 0 THEN [tools |-> reg, by_category |-> by_cat]
    ELSE LET r == RegistryRegister(reg, by_cat, classes[1])
         IN  RegisterAll(r.tools, r.by_category, Tail(classes))

\* two users on two Canvas installations
TwoUsers ==
    {[canvasApiUrl |-> Host, canvasApiToken |-> "tokA"],
     [canvasApiUrl |-> <<"https://other.test", "/">>, canvasApiToken |-> "tokB"]}

ConcurrentRequests ==
    {ToolRequest("list_courses", PyDict(<<>>), user) : user \in TwoUsers}
    \cup {ToolRequest("get_course", PyDict(<<Item("courseId", PyInt(1))>>), user) :
             user \in TwoUsers}

\* what the server of a request answers to its k-th request; continuation links
\* point into that server's own API
ConcurrentResponses(req, k) ==
    LET base == CanvasAPIClient(req.canvasApiUrl, req.canvasApiToken).base_url
        next == << <<"<">> \o base \o <<"/", "courses", "?page=", ToString(k + 1), ">">>,
                   <<" ", RelNext>> >>
    IN  (IF k < MaxPages
         THEN {HttpResponse(200, ListBody(<<"a">>), LinkHeader(<<next>>), None)}
         ELSE {})
        \cup {HttpResponse(200, ListBody(<<"b">>), None, None),
              HttpResponse(200, Body(<<"{}">>, Parsed(PyDict(<<>>))), None, None),
              HttpResponse(401, Body(<<"{}">>, Parsed(PyDict(<<>>))), None, None)}

ConcurrentInit ==
    /\ tools = RegisterAll(<<>>, EmptyIndex, ImportOrder).tools
    /\ tools_by_category = RegisterAll(<<>>, EmptyIndex, ImportOrder).by_category
    /\ imported = Len(ImportOrder)
    /\ pc = [i \in Invocations |-> "idle"]
    /\ request = [i \in Invocations |-> None]
    /\ ctx = [i \in Invocations |-> None]
    /\ frame = [i \in Invocations |-> None]
    /\ sent = [i \in Invocations |-> <<>>]
    /\ served = [i \in Invocations |-> <<>>]
    /\ validated = [i \in Invocations |-> FALSE]
    /\ outcome = [i \in Invocations |-> None]
    /\ raised = [i \in Invocations |-> None]
    /\ envelope = [i \in Invocations |-> None]
    /\ app = "main"
    /\ environ = NoEnviron

\* variant: the context is a module-level object that every invocation overwrites
\* and reads
DispatchSharedContext(i, req) ==
    /\ pc[i] = "idle"
    /\ LET r == CallToolStart(tools, req)
       IN  /\ request' = [request EXCEPT ![i] = req]
           /\ pc' = [pc EXCEPT ![i] = r.pc]
           /\ ctx' = [j \in Invocations |-> IF ctx[j] # None \/ j = i THEN r.ctx ELSE None]
           /\ frame' = [frame EXCEPT ![i] = r.frame]
           /\ sent' = [sent EXCEPT ![i] = r.sent]
           /\ validated' = [validated EXCEPT ![i] = r.validated]
           /\ raised' = [raised EXCEPT ![i] = r.raised]
           /\ envelope' = [envelope EXCEPT ![i] = r.envelope]
    /\ UNCHANGED <<app, environ, tools, tools_by_category, imported, served, outcome>>

\* invocation i of call_tool runs from entry to its first await or its return;
\* ctx, the client and the httpx client are locals of the invocation
DispatchConcurrent(i, req) ==
    /\ pc[i] = "idle"
    /\ LET r == CallToolStart(tools, req)
       IN  /\ request' = [request EXCEPT ![i] = req]
           /\ pc' = [pc EXCEPT ![i] = r.pc]
           /\ ctx' = [ctx EXCEPT ![i] = r.ctx]
           /\ frame' = [frame EXCEPT ![i] = r.frame]
           /\ sent' = [sent EXCEPT ![i] = r.sent]
           /\ validated' = [validated EXCEPT ![i] = r.validated]
           /\ raised' = [raised EXCEPT ![i] = r.raised]
           /\ envelope' = [envelope EXCEPT ![i] = r.envelope]
    /\ UNCHANGED <<app, environ, tools, tools_by_category, imported, served, outcome>>

\* the request awaited by invocation i completes, the event loop resumes i
RespondConcurrent(i, response) ==
    /\ pc[i] = "awaiting"
    /\ LET r == CallToolResume(tools, request[i], ctx[i], frame[i], response)
       IN  /\ pc' = [pc EXCEPT ![i] = r.pc]
           /\ frame' = [frame EXCEPT ![i] = r.frame]
           /\ sent' = [sent EXCEPT ![i] =
                          IF r.pc = "awaiting" THEN Append(@, r.request) ELSE @]
           /\ outcome' = [outcome EXCEPT ![i] = r.outcome]
           /\ raised' = [raised EXCEPT ![i] = r.raised]
           /\ envelope' = [envelope EXCEPT ![i] = r.envelope]
    /\ served' = [served EXCEPT ![i] = Append(@, response)]
    /\ UNCHANGED <<app, environ, tools, tools_by_category, imported, request, ctx, validated>>

\* invocation i has sent its ToolResponse; its context is discarded
ReplyConcurrent(i) ==
    /\ pc[i] = "done"
    /\ pc' = [pc EXCEPT ![i] = "idle"]
    /\ request' = [request EXCEPT ![i] = None]
    /\ ctx' = [ctx EXCEPT ![i] = None]
    /\ frame' = [frame EXCEPT ![i] = None]
    /\ sent' = [sent EXCEPT ![i] = <<>>]
    /\ served' = [served EXCEPT ![i] = <<>>]
    /\ validated' = [validated EXCEPT ![i] = FALSE]
    /\ outcome' = [outcome EXCEPT ![i] = None]
    /\ raised' = [raised EXCEPT ![i] = None]
    /\ envelope' = [envelope EXCEPT ![i] = None]
    /\ UNCHANGED <<app, environ, tools, tools_by_category, imported>>

ConcurrentNext ==
    \/ \E i \in Invocations, req \in ConcurrentRequests : DispatchConcurrent(i, req)
    \/ \E i \in Invocations :
           /\ pc[i] = "awaiting"
           /\ \E response \in ConcurrentResponses(request[i], Len(served[i]) + 1) :
                  RespondConcurrent(i, response)
    \/ \E i \in Invocations : ReplyConcurrent(i)

ConcurrentSpec == ConcurrentInit /\ [][ConcurrentNext]_vars

---------------------------------------------------------------------------
(* api/index.py: the handler-table application with credentials as arguments *)

\* str(e) of httpx.HTTPStatusError, without the reason phrase and the help link
HTTPStatusError(response, url) ==
    Exc("HTTPStatusError",
        <<IF response.status_code >= 500 THEN "Server error '" ELSE "Client error '",
          ToString(response.status_code), "' for url '">> \o url \o <<"'">>)

\* call_canvas_api: from entry to its await
CallCanvasApiStart(api_url, token, endpoint) ==
    Await([method |-> "GET",
           url |-> api_url \o ApiV1 \o endpoint,
           headers |-> ("Authorization" :> <<"Bearer ", token>>),
           params |-> PyDict(<<Item("per_page", PyInt(100))>>)],
          [call |-> "call_canvas_api", endpoint |-> endpoint])

\* call_canvas_api: from the resumption to its return or raise
CallCanvasApiResume(fr, request_url, response) ==
    IF response.kind = "transport_error"
    THEN Raise(Exc("RequestError", <<"transport failure">>))
    ELSE IF ~IsSuccess(response)
    THEN Raise(HTTPStatusError(response, request_url))
    ELSE IF ResponseJson(response).raised # None
    THEN Raise(ResponseJson(response).raised)
    ELSE Return(ResponseJson(response).value)

\* the items a for loop visits: the elements of a list, the keys of a dict
IterItems(v) ==
    CASE v.t = "list" -> [raised |-> None, items |-> v.l]
      [] v.t = "dict" -> [raised |-> None,
                          items |-> [i \in 1..Len(v.items) |-> Str(<<v.items[i].k>>)]]
      [] OTHER        -> [raised |-> Exc("TypeError", <<"object is not iterable">>)]

\* get_my_courses of api/index.py, after its call_canvas_api returned `courses`
IndexGetMyCourses(courses) ==
    IF ~Truthy(courses) THEN Return(Str(<<"No active courses found.">>))
    ELSE IF IterItems(courses).raised # None THEN Raise(IterItems(courses).raised)
    ELSE LET items == IterItems(courses).items
         IN  IF \E i \in 1..Len(items) : items[i].t # "dict" THEN Raise(AttributeError)
             \* "(bullet)" stands for the U+2022 character of the source
             ELSE Return(Str(<<"Your Active Courses:\n\n">> \o Flatten(
                    [i \in 1..Len(items) |->
                        <<"(bullet) ">> \o Format(DictGet(items[i], "course_code", Str(<<>>)))
                        \o <<": ">> \o Format(DictGet(items[i], "name", Str(<<"Unnamed">>)))
                        \o <<"\n  Course ID: ">> \o Format(DictGet(items[i], "id", None))
                        \o <<"\n\n">>])))

\* get_course_details of api/index.py, after its call_canvas_api returned `course`
IndexGetCourseDetails(course) ==
    IF course.t # "dict" THEN Raise(AttributeError)
    ELSE Return(Str(<<"Course Details:\n\n", "Name: ">>
            \o Format(DictGet(course, "course_code", Str(<<>>))) \o <<" - ">>
            \o Format(DictGet(course, "name", Str(<<"Unnamed Course">>)))
            \o <<"\n", "Course ID: ">> \o Format(DictGet(course, "id", None))
            \o <<"\n", "Start Date: ">> \o Format(DictGet(course, "start_at", Str(<<"Not set">>)))
            \o <<"\n", "End Date: ">> \o Format(DictGet(course, "end_at", Str(<<"Not set">>)))
            \o <<"\n">>))

\* the names the if-chain of call_tool tests, in its order
IndexToolNames ==
    <<"get_my_courses", "get_my_course_grades", "get_my_todo_items",
      "get_my_upcoming_assignments", "get_course_announcements", "get_course_discussions",
      "get_course_details", "get_my_submission_status">>

\* `except Exception as e` of the handler-table call_tool: result "" and str(e)
HandlerFailure(e) == ToolResponse(Str(<<>>), Str(e.str))

\* call_tool of api/index.py from entry to its await, or to its raise; of the
\* eight branches the model follows get_my_courses and get_course_details
IndexCallToolStart(req) ==
    CASE req.tool = "get_my_courses" ->
            CallCanvasApiStart(req.canvasApiUrl, req.canvasApiToken,
                <<"/", "courses", "?", "enrollment_state", "=", "active">>)
      [] req.tool = "get_course_details" ->
            IF ~Truthy(DictGet(req.args, "courseId", None))
            THEN Raise(HTTPException(400, <<"courseId required">>))
            ELSE CallCanvasApiStart(req.canvasApiUrl, req.canvasApiToken,
                     CoursePath(DictGet(req.args, "courseId", None)))
      [] ~InList(req.tool, IndexToolNames) ->
            Raise(HTTPException(404, <<"Tool not found: ", req.tool>>))

\* call_tool of api/index.py from the resumption with `response` to its return
IndexCallToolResume(req, fr, request_url, response) ==
    LET step == CallCanvasApiResume(fr, request_url, response)
    IN  IF step.kind = "raise" THEN step
        ELSE IF req.tool = "get_my_courses" THEN IndexGetMyCourses(step.value)
        ELSE IndexGetCourseDetails(step.value)

---------------------------------------------------------------------------
(* api/tools.py: the handler-table application with credentials in os.environ *)

\* set_canvas_config: the environment after the call
SetCanvasConfig(api_url, api_token) == Environ(api_url, api_token)

\* the call of fetch_all_paginated_results or make_canvas_request a handler awaits
FetchCall(function, endpoint, params) ==
    [function |-> function, endpoint |-> endpoint, params |-> params]

\* isinstance(v, dict) and "error" in v
IsErrorDict(v) == v.t = "dict" /\ DictHas(v, "error")

\* get_my_courses of api/tools.py, after its fetch returned `courses`
ToolsGetMyCourses(courses) ==
    IF IsErrorDict(courses)
    THEN Return(Str(<<"Error fetching courses: ">> \o Format(DictGet(courses, "error", None))))
    ELSE IF ~Truthy(courses) THEN Return(Str(<<"No active courses found.">>))
    ELSE IF IterItems(courses).raised # None THEN Raise(IterItems(courses).raised)
    ELSE LET items == IterItems(courses).items
         IN  IF \E i \in 1..Len(items) : items[i].t # "dict" THEN Raise(AttributeError)
             ELSE Return(Str(JoinParts("\n",
                    << <<"Your Active Courses:\n">> >> \o
                    [i \in 1..Len(items) |->
                        <<"(bullet) ">> \o Format(DictGet(items[i], "course_code", Str(<<>>)))
                        \o <<": ">>
                        \o Format(DictGet(items[i], "name", Str(<<"Unnamed Course">>)))
                        \o <<"\n  Course ID: ">> \o Format(DictGet(items[i], "id", None))
                        \o <<"\n">>])))

\* the rank of a posted_at text among the texts the servers of the model send
\* (the order of Python's string comparison)
PostedAtKey(announcement) ==
    LET posted_at == DictGet(announcement, "posted_at", None)
        key == IF Truthy(posted_at) THEN posted_at.s ELSE <<>>
    IN  CASE key = <<>> -> 0
          [] key = <<"2024-01-01">> -> 1
          [] key = <<"2024-02-01">> -> 2

\* list.sort(key=..., reverse=True): descending and stable
RECURSIVE SortByPostedAt(_)
SortByPostedAt(l) ==
    IF Len(l) <= 1 THEN l
    ELSE LET best == CHOOSE i \in 1..Len(l) :
                        /\ \A j \in 1..Len(l) : PostedAtKey(l[j]) <= PostedAtKey(l[i])
                        /\ \A j \in 1..(i - 1) : PostedAtKey(l[j]) < PostedAtKey(l[i])
         IN  <<l[best]>> \o SortByPostedAt(SubSeq(l, 1, best - 1) \o SubSeq(l, best + 1, Len(l)))

\* l[:n]
SliceTo(l, n) ==
    IF n >= 0 THEN SubSeq(l, 1, IF n < Len(l) THEN n ELSE Len(l))
    ELSE SubSeq(l, 1, IF Len(l) + n > 0 THEN Len(l) + n ELSE 0)

\* the output lines of one announcement; format_date is a function of
\* canvas_mcp.core.dates and is left applied, a message is shorter than 200 characters
AnnouncementLines(announcement) ==
    <<"(bullet) ">> \o Format(DictGet(announcement, "title", Str(<<"Untitled">>)))
    \o <<"\n  Course: ">>
    \o Format(DictGet(announcement, "_course_name", Str(<<"Unknown Course">>)))
    \o <<"\n  Posted: ", "format_date(">> \o Format(DictGet(announcement, "posted_at", None))
    \o <<")", "\n  ">> \o Format(DictGet(announcement, "message", Str(<<>>))) \o <<"\n">>

\* get_course_announcements: from the end of its loop over the courses to its return
AnnouncementsFinish(limit, all_announcements) ==
    IF Len(all_announcements) = 0 THEN Return(Str(<<"No recent announcements found.">>))
    ELSE IF ~IsInt(limit) /\ limit # None
    THEN Raise(Exc("TypeError", <<"slice indices must be integers or None">>))
    ELSE LET sorted == SortByPostedAt(all_announcements)
             recent == IF limit = None THEN sorted ELSE SliceTo(sorted, IntValue(limit))
         IN  Return(Str(JoinParts("\n",
                << <<"Recent Course Announcements (", ToString(Len(recent)), "):\n">> >>
                \o [i \in 1..Len(recent) |-> AnnouncementLines(recent[i])])))

\* get_course_announcements: the loop over `courses` from its head to the next
\* await, or past its end to the return
AnnouncementsLoop(limit, courses, all_announcements) ==
    IF Len(courses) = 0 THEN AnnouncementsFinish(limit, all_announcements)
    ELSE IF courses[1].t # "dict" THEN Raise(AttributeError)
    ELSE Await(FetchCall("fetch_all_paginated_results",
                   <<"/", "courses", "/">> \o Format(DictGet(courses[1], "id", None))
                       \o <<"/", "discussion_topics">>,
                   PyDict(<<Item("only_announcements", Str(<<"true">>)),
                            Item("per_page", PyInt(100))>>)),
               [call |-> "fetch", handler |-> "get_course_announcements",
                stage |-> "announcements", limit |-> limit, courses |-> Tail(courses),
                course_name |-> DictGet(courses[1], "name", None),
                all_announcements |-> all_announcements])

\* d[k] = v
DictSet(d, k, v) ==
    IF DictHas(d, k)
    THEN PyDict([i \in 1..Len(d.items) |-> IF d.items[i].k = k THEN Item(k, v) ELSE d.items[i]])
    ELSE PyDict(Append(d.items, Item(k, v)))

\* get_course_announcements: from entry to its first await
ToolsGetCourseAnnouncementsStart(args) ==
    Await(FetchCall("fetch_all_paginated_results", <<"/", "courses">>,
                    PyDict(<<Item("enrollment_state", Str(<<"active">>)),
                             Item("per_page", PyInt(100))>>)),
          [call |-> "fetch", handler |-> "get_course_announcements", stage |-> "courses",
           limit |-> DictGet(args, "limit", PyInt(10)), courses |-> <<>>,
           course_name |-> None, all_announcements |-> <<>>])

\* get_course_announcements: from the return of an awaited fetch to the next
\* await, or to its return or raise
ToolsGetCourseAnnouncementsResume(fr, fetched) ==
    IF fr.stage = "courses"
    THEN IF IsErrorDict(fetched)
         THEN Return(Str(<<"Error fetching courses: ">>
                         \o Format(DictGet(fetched, "error", None))))
         ELSE IF ~Truthy(fetched) THEN Return(Str(<<"No active courses found.">>))
         ELSE IF IterItems(fetched).raised # None THEN Raise(IterItems(fetched).raised)
         ELSE AnnouncementsLoop(fr.limit, IterItems(fetched).items, <<>>)
    ELSE IF fetched.t # "list"
    THEN AnnouncementsLoop(fr.limit, fr.courses, fr.all_announcements)
    ELSE IF \E i \in 1..Len(fetched.l) : fetched.l[i].t # "dict"
    THEN Raise(Exc("TypeError", <<"object does not support item assignment">>))
    ELSE AnnouncementsLoop(fr.limit, fr.courses,
             fr.all_announcements
             \o [i \in 1..Len(fetched.l) |->
                    DictSet(fetched.l[i], "_course_name", fr.course_name)])

\* get_course_details of api/tools.py: from entry to its await or its return
ToolsGetCourseDetailsStart(args) ==
    IF ~Truthy(DictGet(args, "courseId", None))
    THEN Return(Str(<<"Error: courseId required">>))
    ELSE Await(FetchCall("make_canvas_request",
                   CoursePath(DictGet(args, "courseId", None)), None),
               [call |-> "fetch", handler |-> "get_course_details", stage |-> "course"])

\* get_course_details of api/tools.py, after make_canvas_request returned `course`
ToolsGetCourseDetails(course) ==
    LET date(key) == IF Truthy(DictGet(course, key, None))
                     THEN <<"format_date(">> \o Format(DictGet(course, key, None)) \o <<")">>
                     ELSE <<"Not set">>
    IN  IF IsErrorDict(course)
        THEN Return(Str(<<"Error fetching course: ">> \o Format(DictGet(course, "error", None))))
        ELSE IF course.t # "dict" THEN Raise(AttributeError)
        ELSE Return(Str(JoinParts("\n", <<
                <<"Course Details:\n">>,
                <<"Name: ">> \o Format(DictGet(course, "course_code", Str(<<>>))) \o <<" - ">>
                    \o Format(DictGet(course, "name", Str(<<"Unnamed Course">>))),
                <<"Course ID: ">> \o Format(DictGet(course, "id", None)),
                <<"Start Date: ">> \o date("start_at"),
                <<"End Date: ">> \o date("end_at")>>)))

\* the keys of TOOL_HANDLERS once the module is imported
ToolHandlers ==
    {"get_my_upcoming_assignments", "get_my_course_grades", "get_my_courses",
     "get_my_todo_items", "get_my_submission_status", "get_course_announcements",
     "get_course_details", "get_course_discussions"}

\* an exception that leaves call_tool
Propagate(e) == [kind |-> "propagate", exc |-> e]

\* call_tool of api/tools.py after set_canvas_config, from the lookup to the first
\* await, or to its return or raise; of the eight handlers the model follows three
ToolsCallToolStart(req) ==
    CASE req.tool \notin ToolHandlers ->
            Propagate(HTTPException(404, <<"Tool not found: ", req.tool>>))
      [] req.tool = "get_my_courses" ->
            Await(FetchCall("fetch_all_paginated_results", <<"/", "courses">>,
                            PyDict(<<Item("enrollment_state", Str(<<"active">>)),
                                     Item("per_page", PyInt(100))>>)),
                  [call |-> "fetch", handler |-> "get_my_courses", stage |-> "courses"])
      [] req.tool = "get_course_announcements" -> ToolsGetCourseAnnouncementsStart(req.args)
      [] req.tool = "get_course_details" -> ToolsGetCourseDetailsStart(req.args)

\* call_tool of api/tools.py from the end of an awaited fetch (it returned a value
\* or raised) to the next await, or to its return
ToolsCallToolResume(req, fr, fetch) ==
    IF fetch.kind = "raise" THEN fetch
    ELSE CASE fr.handler = "get_my_courses" -> ToolsGetMyCourses(fetch.value)
           [] fr.handler = "get_course_announcements" ->
                  ToolsGetCourseAnnouncementsResume(fr, fetch.value)
           [] fr.handler = "get_course_details" -> ToolsGetCourseDetails(fetch.value)

---------------------------------------------------------------------------
(* The three applications, each serving two concurrent invocations *)

Apps == {"main", "index", "tools"}

Course1 ==
    PyDict(<<Item("id", PyInt(1)), Item("name", Str(<<"Algebra">>)),
             Item("course_code", Str(<<"MATH">>))>>)
Course2 == PyDict(<<Item("id", PyInt(2))>>)

Announcement1 ==
    PyDict(<<Item("title", Str(<<"Welcome">>)), Item("posted_at", Str(<<"2024-01-01">>))>>)
Announcement2 ==
    PyDict(<<Item("title", Str(<<"Exam">>)), Item("message", Str(<<"room 7">>)),
             Item("posted_at", Str(<<"2024-02-01">>))>>)

ErrorDict == PyDict(<<Item("error", Str(<<"denied">>))>>)

\* the requests sent to the handler-table applications
HandlerRequests ==
    {ToolRequest(n, a, user) :
        n \in {"get_my_courses", "no_such_tool"}, a \in {PyDict(<<>>)}, user \in TwoUsers}
    \cup {ToolRequest("get_course_details", a, user) :
            a \in {PyDict(<<>>), PyDict(<<Item("courseId", PyInt(1))>>)}, user \in TwoUsers}

AnnouncementRequests ==
    {ToolRequest("get_course_announcements", a, user) :
        a \in {PyDict(<<>>), PyDict(<<Item("limit", PyInt(1))>>)}, user \in TwoUsers}

\* what a Canvas server answers to a request of call_canvas_api
IndexResponses ==
    {HttpResponse(200, Body(<<"[c1,c2]">>, Parsed(PyList(<<Course1, Course2>>))), None, None),
     HttpResponse(200, Body(<<"[]">>, Parsed(PyList(<<>>))), None, None),
     HttpResponse(200, Body(<<"c1">>, Parsed(Course1)), None, None),
     HttpResponse(200, Body(<<"<html>maintenance</html>">>, NotJson), None, None),
     HttpResponse(401, Body(<<"{}">>, Parsed(PyDict(<<>>))), None, None),
     TransportError}

\* how a fetch awaited by a handler of api/tools.py may end: the functions of
\* canvas_mcp.core.client return the data, return an error dict, or raise
FetchOutcomes(fr) ==
    {Return(ErrorDict), Return(PyList(<<>>)), Raise(Exc("RequestError", <<"transport failure">>))}
    \cup (CASE fr.stage = "courses" ->
                  {Return(PyList(<<Course1>>)), Return(PyList(<<Course1, Course2>>))}
            [] fr.stage = "announcements" ->
                  {Return(PyList(<<Announcement1>>)), Return(PyList(<<Announcement2>>))}
            [] fr.stage = "course" -> {Return(Course1)})

AppsInit ==
    /\ app \in Apps
    /\ environ = NoEnviron
    /\ tools = IF app = "main" THEN RegisterAll(<<>>, EmptyIndex, ImportOrder).tools ELSE <<>>
    /\ tools_by_category =
          IF app = "main" THEN RegisterAll(<<>>, EmptyIndex, ImportOrder).by_category
          ELSE EmptyIndex
    /\ imported = IF app = "main" THEN Len(ImportOrder) ELSE 0
    /\ pc = [i \in Invocations |-> "idle"]
    /\ request = [i \in Invocations |-> None]
    /\ ctx = [i \in Invocations |-> None]
    /\ frame = [i \in Invocations |-> None]
    /\ sent = [i \in Invocations |-> <<>>]
    /\ served = [i \in Invocations |-> <<>>]
    /\ validated = [i \in Invocations |-> FALSE]
    /\ outcome = [i \in Invocations |-> None]
    /\ raised = [i \in Invocations |-> None]
    /\ envelope = [i \in Invocations |-> None]

\* invocation i of a handler-table call_tool has run to `step`: an await, a
\* return, a raise inside the try block, or an exception that leaves call_tool
HandlerStep(i, step) ==
    /\ pc' = [pc EXCEPT ![i] = IF step.kind = "await" THEN "awaiting" ELSE "done"]
    /\ frame' = [frame EXCEPT ![i] = IF step.kind = "await" THEN step.frame ELSE @]
    /\ sent' = [sent EXCEPT ![i] = IF step.kind = "await" THEN Append(@, step.request) ELSE @]
    /\ raised' = [raised EXCEPT ![i] =
                     IF step.kind \in {"raise", "propagate"} THEN step.exc ELSE None]
    /\ envelope' = [envelope EXCEPT ![i] =
                       CASE step.kind = "await"     -> None
                         [] step.kind = "return"    -> ToolResponse(step.value, None)
                         [] step.kind = "raise"     -> HandlerFailure(step.exc)
                         [] step.kind = "propagate" -> [propagated |-> step.exc]]

\* POST /tools/call of api/index.py: invocation i runs to its await or its return
IndexDispatch(i, req) ==
    /\ app = "index"
    /\ pc[i] = "idle"
    /\ request' = [request EXCEPT ![i] = req]
    /\ HandlerStep(i, IndexCallToolStart(req))
    /\ UNCHANGED <<app, environ, tools, tools_by_category, imported, ctx, served, validated,
                   outcome>>

\* the request awaited by invocation i of api/index.py completes
IndexRespond(i, response) ==
    /\ app = "index"
    /\ pc[i] = "awaiting"
    /\ HandlerStep(i, IndexCallToolResume(request[i], frame[i],
                                          sent[i][Len(sent[i])].url, response))
    /\ served' = [served EXCEPT ![i] = Append(@, response)]
    /\ UNCHANGED <<app, environ, tools, tools_by_category, imported, request, ctx, validated,
                   outcome>>

\* POST /tools/call of api/tools.py: invocation i writes its credentials to
\* os.environ and runs to its await or its return
ToolsDispatch(i, req) ==
    /\ app = "tools"
    /\ pc[i] = "idle"
    /\ environ' = SetCanvasConfig(req.canvasApiUrl, req.canvasApiToken)
    /\ request' = [request EXCEPT ![i] = req]
    /\ HandlerStep(i, ToolsCallToolStart(req))
    /\ UNCHANGED <<app, tools, tools_by_category, imported, ctx, served, validated, outcome>>

\* the fetch awaited by invocation i of api/tools.py ends, the event loop resumes i
ToolsRespond(i, fetch) ==
    /\ app = "tools"
    /\ pc[i] = "awaiting"
    /\ HandlerStep(i, ToolsCallToolResume(request[i], frame[i], fetch))
    /\ served' = [served EXCEPT ![i] = Append(@, fetch)]
    /\ UNCHANGED <<app, environ, tools, tools_by_category, imported, request, ctx, validated,
                   outcome>>

AppsNext ==
    \/ /\ app = "main"
       /\ ConcurrentNext
    \/ \E i \in Invocations, req \in HandlerRequests : IndexDispatch(i, req)
    \/ \E i \in Invocations, response \in IndexResponses : IndexRespond(i, response)
    \/ \E i \in Invocations, req \in HandlerRequests \cup AnnouncementRequests :
           ToolsDispatch(i, req)
    \/ \E i \in Invocations :
           /\ pc[i] = "awaiting"
           /\ app = "tools"
           /\ \E fetch \in FetchOutcomes(frame[i]) : ToolsRespond(i, fetch)
    \/ /\ app # "main"
       /\ \E i \in Invocations : ReplyConcurrent(i)

AppsSpec == AppsInit /\ [][AppsNext]_vars

---------------------------------------------------------------------------
(* _get_next_page_url applied to Link header texts *)

MaxEntries == 3   \* comma-separated pieces of a Link header text

\* the Link header text as link_header.split(",") and link.split(";") cut it;
\* the empty text is the one `not link_header` answers
LinkHeaderOf(text) ==
    IF text = None THEN None
    ELSE IF text.s = <<>> THEN LinkHeader(<<>>)
    ELSE LinkHeader([i \in 1..Len(SplitOn(text.s, ",")) |->
                        SplitOn(SplitOn(text.s, ",")[i], ";")])

\* pieces of Link header texts: a next entry, a prev entry, a next entry whose
\* marker is its third part, an entry whose URL holds the marker, and the two
\* halves of a next entry whose URL holds a comma
LinkPieces ==
    {<<"<", "https://canvas.test/courses?page=2", ">", ";", " ", RelNext>>,
     <<" ", "<", "https://canvas.test/courses?page=1", ">", ";", " ", "rel=\"prev\"">>,
     <<" ", "<", "https://canvas.test/courses?page=3", ">", " ", ";", " ", "title=x", ";",
       " ", RelNext>>,
     <<"<", "https://canvas.test/courses?q=", RelNext, ">">>,
     <<"<", "https://canvas.test/courses?include[]=a">>,
     <<"b&page=4", ">", ";", " ", RelNext>>}

LinkHeaderTexts ==
    {Str(JoinParts(",", ps)) : ps \in UNION {[1..n -> LinkPieces] : n \in 1..MaxEntries}}
    \cup {Str(<<>>), None}

LinkInit ==
    /\ tools = <<>>
    /\ tools_by_category = EmptyIndex
    /\ imported = 0
    /\ pc = "called"
    /\ request = None
    /\ ctx = None
    /\ frame \in {[link_header |-> text] : text \in LinkHeaderTexts}
    /\ sent = <<>>
    /\ served = <<>>
    /\ validated = FALSE
    /\ outcome = None
    /\ raised = None
    /\ envelope = None
    /\ app = "main"
    /\ environ = NoEnviron

\* _get_next_page_url runs on the response whose Link header is frame.link_header
ExtractNextPageUrl ==
    /\ pc = "called"
    /\ pc' = "returned"
    /\ outcome' = Return(GetNextPageUrl([link |-> LinkHeaderOf(frame.link_header)]))
    /\ UNCHANGED <<app, environ, tools, tools_by_category, imported, request, ctx, frame, sent,
                   served, validated, raised, envelope>>

LinkNext == ExtractNextPageUrl

LinkSpec == LinkInit /\ [][LinkNext]_vars

---------------------------------------------------------------------------
(* Properties *)

Done == pc = "done"

LastServed == served[Len(served)]

IsFailure(response) == response.kind = "http" /\ ~IsSuccess(response)

IsEnvelope(r) == DOMAIN r = {"result", "error"}

ErrorStartsWith(prefix) ==
    /\ envelope.error.t = "str"
    /\ Len(envelope.error.s) > 0
    /\ envelope.error.s[1] = prefix

Registered(name) == \E i \in 1..Len(tools) : tools[i].name = name

Mentions(text, token) == \E i \in 1..Len(text) : text[i] = token

AllListPages ==
    \A i \in 1..Len(served) :
        /\ served[i].kind = "http"
        /\ IsSuccess(served[i])
        /\ served[i].json.ok
        /\ served[i].json.value.t = "list"

\* C1: every envelope call_tool returns has exactly one of result and error
\* non-null: never both non-null, never both null.
C1_ExactlyOneOfResultAndError ==
    Done => /\ IsEnvelope(envelope)
            /\ (envelope.result = None) # (envelope.error = None)

C1_Witness ==
    /\ Done
    /\ Len(served) >= 2
    /\ envelope.error = None
    /\ envelope.result # None

\* C2: call_tool never raises: every exception raised during lookup, validation
\* or execution ends in an envelope with a non-null error string and a null result.
C2_FaultsBecomeErrorEnvelopes ==
    Done /\ raised # None =>
        /\ IsEnvelope(envelope)
        /\ envelope.result = None
        /\ envelope.error.t = "str"
        /\ Len(envelope.error.s) > 0

C2_Witness ==
    /\ Done
    /\ raised # None
    /\ raised.cls = "TypeError"
    /\ Len(sent) > 0
    /\ ErrorStartsWith("Unexpected error: ")

\* C3: dispatching a name that is not registered returns an envelope with a null
\* result and an error string naming every registered tool; neither validator nor
\* executor runs and no request is issued.
C3_UnknownToolListsRegisteredNames ==
    Done /\ ~Registered(request.tool) =>
        /\ IsEnvelope(envelope)
        /\ envelope.result = None
        /\ envelope.error.t = "str"
        /\ \A i \in 1..Len(tools) : Mentions(envelope.error.s, tools[i].name)
        /\ ~validated
        /\ ctx = None
        /\ sent = <<>>

C3_Witness ==
    /\ Done
    /\ request.tool = "no_such_tool"
    /\ Len(tools) = Len(ImportOrder)
    /\ Mentions(envelope.error.s, "get_discussion_topic")

\* C4: when the tool's validator rejects the arguments, the invocation ends in
\* an "Invalid arguments" envelope, the executor is never entered and the
\* invocation has issued no request.
C4_RejectedArgumentsIssueNoRequest ==
    Done /\ Registered(request.tool)
         /\ ValidateArgs(RegistryGet(tools, request.tool).tool, request.args) # None =>
        /\ sent = <<>>
        /\ served = <<>>
        /\ ctx.client = None
        /\ envelope.result = None
        /\ ErrorStartsWith("Invalid arguments: ")

C4_Witness ==
    /\ Done
    /\ request.tool = "get_course"
    /\ request.args = PyDict(<<Item("courseId", PyInt(0))>>)
    /\ ErrorStartsWith("Invalid arguments: ")
    /\ sent = <<>>

\* C5: an envelope that reports an argument fault ("Invalid arguments") belongs
\* to an invocation that issued no request.
C5_ArgumentFaultMeansNoRequest ==
    Done /\ envelope.error # None /\ ErrorStartsWith("Invalid arguments: ") => sent = <<>>

\* C6: a paginated get that is served successful list pages only returns the
\* concatenation of the pages in the order served.
C6_PagesConcatenatedInOrder ==
    Done /\ frame # None /\ frame.paginate /\ AllListPages =>
        /\ outcome.kind = "return"
        /\ outcome.value = PyList(Flatten([i \in 1..Len(served) |-> served[i].json.value.l]))

C6_Witness ==
    /\ Done
    /\ frame # None
    /\ frame.paginate
    /\ AllListPages
    /\ Len(served) = 3
    /\ outcome.kind = "return"
    /\ outcome.value = PyList(<<"b", "a", "b">>)

\* C7: when a page request of a paginated get fails, get raises the classified
\* error of that page (a CanvasAPIError carrying the page's status) and returns no list.
C7_FailedPageRaisesClassifiedError ==
    Done /\ frame # None /\ frame.paginate /\ Len(served) > 0 /\ IsFailure(LastServed) =>
        /\ outcome.kind = "raise"
        /\ IsCanvasAPIError(outcome.exc)
        /\ outcome.exc.status_code = LastServed.status_code
        /\ envelope.result = None

\* the kind the status table gives a failing status
KindOfStatus(status_code) ==
    CASE status_code = 401         -> "CanvasAuthError"
      [] status_code = 404         -> "CanvasNotFoundError"
      [] status_code \in {400, 422} -> "CanvasValidationError"
      [] status_code = 429         -> "CanvasRateLimitError"
      [] status_code >= 500        -> "CanvasServerError"
      [] OTHER                     -> "CanvasAPIError"

\* C8: every failing status is classified as the one kind the table gives it,
\* carrying that status (and the endpoint as the resource of a 404).
C8_StatusMapsToItsKind ==
    Done /\ Len(served) > 0 /\ IsFailure(LastServed) =>
        /\ outcome.kind = "raise"
        /\ outcome.exc.cls = KindOfStatus(LastServed.status_code)
        /\ outcome.exc.status_code = LastServed.status_code
        /\ outcome.exc.endpoint = frame.endpoint
        /\ (LastServed.status_code = 404 =>
                outcome.exc.message = Str(<<"Resource not found: ">> \o frame.endpoint))

\* C9: for every failing status, body and Retry-After header the classifier ends
\* with a CanvasAPIError instance, never with another exception.
C9_ClassifierRaisesOnlyCanvasErrors ==
    Done /\ Len(served) > 0 /\ IsFailure(LastServed) =>
        outcome.kind = "raise" /\ outcome.exc.cls \in CanvasAPIErrorClasses

\* C10: a 400 or 422 response whose body is not JSON is classified as a
\* validation error whose message is the raw response text, without structured errors.
C10_NonJsonValidationFailure ==
    Done /\ Len(served) > 0 /\ IsFailure(LastServed)
         /\ LastServed.status_code \in {400, 422} /\ ~LastServed.json.ok
         /\ Len(LastServed.text) > 0 =>
        /\ outcome.kind = "raise"
        /\ outcome.exc.cls = "CanvasValidationError"
        /\ outcome.exc.message = Str(<<"Validation error: ">> \o LastServed.text)
        /\ outcome.exc.response_data = None

\* the retry-after payload a CanvasRateLimitError carries
RetryAfterPayload(seconds) == PyDict(<<Item("retry_after", PyInt(seconds))>>)

\* C11: a 429 response is classified as a rate-limit error whose retry-after
\* payload is the integer of the Retry-After header whenever the header is
\* present (0 included), and null exactly when the header is absent.
C11_RetryAfterSecondsFromHeader ==
    Done /\ Len(served) > 0 /\ IsFailure(LastServed) /\ LastServed.status_code = 429 =>
        /\ outcome.kind = "raise"
        /\ outcome.exc.cls = "CanvasRateLimitError"
        /\ \A n \in 0..MaxRetryAfter :
               LastServed.retry_after = Str(<<ToString(n)>>) =>
                   outcome.exc.response_data = RetryAfterPayload(n)
        /\ (outcome.exc.response_data = None <=> LastServed.retry_after = None)

UniqueNames(reg) ==
    \A i, j \in 1..Len(reg) : reg[i].name = reg[j].name => i = j

\* some register call of this process was rejected
SomeRegistrationRejected == imported > Len(tools)

\* C12: register raises for a tool with an empty name and for a tool whose name
\* is already registered, leaving the registry as it was; after every sequence of
\* register calls the registered names are non-empty and pairwise distinct.
C12_RegisterKeepsNamesUnique ==
    [][/\ UniqueNames(tools')
       /\ \A i \in 1..Len(tools') : tools'[i].name # ""
       /\ \A tool_class \in ToolClassSamples :
              RegisterTool(tool_class)
              /\ (tool_class.name = "" \/ HasTool(tools, tool_class.name)) =>
                  /\ raised' # None
                  /\ raised'.cls = "ValueError"
                  /\ tools' = tools]_vars

C12_Witness ==
    /\ Len(tools) = 2
    /\ imported = 4
    /\ raised # None
    /\ raised.str = <<"Tool '", "list_courses", "' is already registered">>

\* C13: once a registration was rejected (a second operation under a registered
\* name), the application never serves: no invocation is dispatched and no
\* envelope, successful or not, is ever produced.
C13_DuplicateRegistrationStopsDispatch ==
    SomeRegistrationRejected =>
        /\ pc = "crashed"
        /\ request = None
        /\ envelope = None

C13_Witness ==
    /\ SomeRegistrationRejected
    /\ pc = "crashed"
    /\ HasTool(tools, "list_courses")
    /\ raised # None
    /\ raised.str = <<"Tool '", "list_courses", "' is already registered">>

\* a client method has returned or raised into the tool body
ClientDone == pc = "running" /\ outcome # None

UrlPath(url) == IF IndexOf(url, "?") = 0 THEN url ELSE SubSeq(url, 1, IndexOf(url, "?") - 1)

\* the key=value fragments of the query string of url, as a server splits them
QueryFragments(url) ==
    IF IndexOf(url, "?") = 0 THEN <<>>
    ELSE SplitOn(SubSeq(url, IndexOf(url, "?") + 1, Len(url)), "&")

FragmentsOf(url, key) ==
    SelectSeq(QueryFragments(url), LAMBDA f : Len(f) >= 2 /\ f[1] = key /\ f[2] = "=")

\* C14: a list-valued parameter k: [v1, ..., vn] appears in the built URL as
\* exactly n fragments k=v1, ..., k=vn in the order of the list, placed where k
\* stands in the mapping, and never as one joined value.
C14_ListParamsAsRepeatedFragments ==
    request # None /\ Len(sent) >= 1 /\ request.params # None =>
        LET items == request.params.items
            frags == QueryFragments(sent[1].url)
        IN  \A i \in 1..Len(items) :
                items[i].v.t = "list" =>
                    /\ FragmentsOf(sent[1].url, items[i].k)
                         = [j \in 1..Len(items[i].v.l) |->
                               <<items[i].k, "=">> \o Format(items[i].v.l[j])]
                    /\ \A h \in (i + 1)..Len(items), a, b \in 1..Len(frags) :
                           frags[a][1] = items[i].k /\ frags[b][1] = items[h].k => a < b

C14_Witness ==
    /\ request # None
    /\ request.params = MixedParams
    /\ Len(sent) = 1
    /\ Len(FragmentsOf(sent[1].url, "state[]")) = 2
    /\ QueryFragments(sent[1].url)[2] = <<"state[]", "=", "y">>
    /\ QueryFragments(sent[1].url)[3] = <<"state[]", "=", "x">>

\* the number of places where sub occurs in text
CountSub(text, sub) ==
    Cardinality({i \in 1..(Len(text) - Len(sub) + 1) :
                    SubSeq(text, i, i + Len(sub) - 1) = sub})

RECURSIVE LStripSlash(_)
LStripSlash(text) ==
    IF Len(text) > 0 /\ text[1] = "/" THEN LStripSlash(Tail(text)) ELSE text

\* C16: whatever the number of leading slashes of the endpoint, the built URL
\* has exactly one slash between the normalized base address and the endpoint path.
C16_SingleSlashBeforeEndpoint ==
    request # None /\ Len(sent) >= 1 =>
        UrlPath(sent[1].url) = ctx.client.base_url \o <<"/">> \o LStripSlash(request.endpoint)

\* C17: delete returns an empty object for a successful response whose body is
\* not decodable as JSON, and raises the classified error for a failing status.
C17_DeleteEmptyBodyGivesEmptyObject ==
    ClientDone /\ frame.call = "delete" /\ LastServed.kind = "http" =>
        /\ (IsSuccess(LastServed) /\ ~LastServed.json.ok => outcome = Return(PyDict(<<>>)))
        /\ (~IsSuccess(LastServed) =>
                outcome.kind = "raise" /\ IsCanvasAPIError(outcome.exc))

\* C18: a context constructs at most one client: none before the first access
\* of ctx.client, the same one at every later access, bound to the address and
\* credential the context was created with.
C18_OneClientPerContext ==
    [][/\ ctx' # None =>
              /\ ctx'.built <= 1
              /\ (ctx'.built = 0 <=> ctx'.client = None)
              /\ (ctx'.client # None =>
                     /\ ctx'.client.api_token = ctx'.api_token
                     /\ ctx'.client.api_url = RStripSlash(ctx'.api_url))
       /\ (ctx # None /\ ctx' # None /\ ctx.client # None => ctx'.client = ctx.client)]_vars

C18_Witness ==
    /\ ctx # None
    /\ request # None
    /\ request.nth = 2
    /\ ClientDone
    /\ ctx.built = 1

StartsWith(text, prefix) ==
    Len(text) >= Len(prefix) /\ SubSeq(text, 1, Len(prefix)) = prefix

\* C20: every request of a client, follow-up page requests included, goes to a
\* URL under the client's own base address and carries Authorization: Bearer
\* <credential>; the credential is sent nowhere else.
C20_CredentialStaysOnBaseAddress ==
    ctx # None /\ ctx.client # None =>
        \A i \in 1..Len(sent) :
            /\ sent[i].headers["Authorization"] = <<"Bearer ", ctx.api_token>>
            /\ StartsWith(sent[i].url, ctx.client.base_url \o <<"/">>)

\* the envelope call_tool returns for req when it runs alone and is served
\* responses; None while it is still awaiting
RECURSIVE SoloResume(_, _, _, _)
SoloResume(req, c, fr, responses) ==
    IF Len(responses) = 0 THEN None
    ELSE LET r == CallToolResume(tools, req, c, fr, responses[1])
         IN  IF r.pc = "done" THEN r.envelope
             ELSE SoloResume(req, c, r.frame, Tail(responses))

SoloEnvelope(req, responses) ==
    LET st == CallToolStart(tools, req)
    IN  IF st.pc = "done" THEN st.envelope
        ELSE SoloResume(req, st.ctx, st.frame, responses)

C21_ListCoursesEndToEnd ==
    Done /\ request.tool = "list_courses" /\ validated /\ Len(served) > 0 /\ AllListPages =>
        LET courses == Flatten([i \in 1..Len(served) |-> served[i].json.value.l])
        IN  /\ IsEnvelope(envelope)
            /\ envelope.error = None
            /\ DictGet(envelope.result, "courses", None) = PyList(courses)
            /\ DictGet(envelope.result, "total", None) = PyInt(Len(courses))

C21_Witness ==
    /\ Done
    /\ request.tool = "list_courses"
    /\ Len(served) = 2
    /\ AllListPages
    /\ envelope.error = None
    /\ DictGet(envelope.result, "courses", None) = PyList(<<"a", "b", "a">>)
    /\ DictGet(envelope.result, "total", None) = PyInt(3)

\* invocation i has ended in a failure: an exception was raised in it
Failed(i) == pc[i] = "done" /\ raised[i] # None

\* C22: every call_tool entry point (main.py, api/index.py, api/tools.py) answers
\* every failed invocation, an unknown tool name included, with an envelope whose
\* error is a non-null string and whose result is null, and never raises.
C22_EveryEntryPointAnswersFailuresWithErrorEnvelope ==
    \A i \in Invocations :
        Failed(i) =>
            /\ IsEnvelope(envelope[i])
            /\ envelope[i].result = None
            /\ envelope[i].error # None
            /\ envelope[i].error.t = "str"

\* the credentials of the request of invocation i, as set_canvas_config stores them
OwnCredentials(i) == Environ(request[i].canvasApiUrl, request[i].canvasApiToken)

\* C30: in api/tools.py, under any interleaving of two invocations, whenever an
\* invocation's handler resumes from an await the credentials in os.environ are
\* those of that invocation's own request.
C30_HandlerResumesWithOwnCredentials ==
    [][\A i \in Invocations :
          app = "tools" /\ pc[i] = "awaiting" /\ served'[i] # served[i] =>
              environ' = OwnCredentials(i)]_vars

\* the response carries a Link header with an entry marked rel="next"
HasNextLink(response) ==
    /\ response.link # None
    /\ \E i \in 1..Len(response.link.entries) :
           \E j \in 1..Len(response.link.entries[i]) :
               Mentions(response.link.entries[i][j], RelNext)

Trimmed(s, chars) ==
    LET keep == {i \in 1..Len(s) : s[i] \notin chars}
    IN  IF keep = {} THEN <<>>
        ELSE SubSeq(s, CHOOSE i \in keep : \A j \in keep : i <= j,
                       CHOOSE i \in keep : \A j \in keep : j <= i)

\* what the claim expects of a Link header text
ExpectedCursor(text) ==
    IF text = None \/ text = Str(<<>>) THEN None
    ELSE LET pieces == SplitOn(text.s, ",")
             marked == {i \in 1..Len(pieces) : Mentions(pieces[i], RelNext)}
         IN  IF marked = {} THEN None
             ELSE LET entry == pieces[CHOOSE i \in marked : \A j \in marked : i <= j]
                      before == IF IndexOf(entry, ";") = 0 THEN entry
                                ELSE SubSeq(entry, 1, IndexOf(entry, ";") - 1)
                  IN  Str(Trimmed(Trimmed(before, {" "}), {"<", ">"}))

\* C24: for a Link header split on commas, _get_next_page_url returns the URL of
\* the first entry that contains rel="next" anywhere (the part before the entry's
\* first semicolon, without surrounding blanks and angle brackets), and no cursor
\* when the header is absent, empty or has no such entry.
C24_FirstNextEntryGivesTheCursor ==
    pc = "returned" => outcome = Return(ExpectedCursor(frame.link_header))

C24_Witness ==
    /\ pc = "returned"
    /\ frame.link_header # None
    /\ Len(SplitOn(frame.link_header.s, ",")) = 3
    /\ ~Mentions(SplitOn(frame.link_header.s, ",")[1], RelNext)
    /\ Mentions(SplitOn(frame.link_header.s, ",")[2], RelNext)
    /\ Mentions(SplitOn(frame.link_header.s, ",")[3], RelNext)
    /\ outcome = Return(Str(<<"https://canvas.test/courses?page=3">>))

\* C25: pagination is sequential: at most one request of an invocation is in
\* flight at any time, and the request for page k+1 is the one whose URL was
\* extracted from the response to the request for page k, issued after it.
C25_PaginationIsSequential ==
    /\ Len(sent) - Len(served) \in {0, 1}
    /\ (pc = "awaiting" => Len(sent) = Len(served) + 1)
    /\ \A k \in 1..(Len(sent) - 1) :
           /\ k <= Len(served)
           /\ sent[k + 1].url = GetNextPageUrl(served[k]).s

C25_Witness ==
    /\ pc = "awaiting"
    /\ frame.paginate
    /\ Len(sent) = 3
    /\ Len(served) = 2

\* the request answered by `response` failed: a failing status, a timeout or a
\* network error
RequestFailed(response) == response.kind = "transport_error" \/ IsFailure(response)

\* C26: there is no retry: every request is sent once and answered before the
\* next is sent, and a failed request is the last of its invocation, which ends
\* in an error envelope.
C26_NoRetryAfterFailure ==
    /\ Len(sent) <= Len(served) + 1
    /\ \A k \in 1..Len(served) :
           RequestFailed(served[k]) =>
               /\ k = Len(served)
               /\ Len(sent) = k
               /\ Done
               /\ IsEnvelope(envelope)
               /\ envelope.result = None
               /\ envelope.error # None
               /\ envelope.error.t = "str"

C26_Witness ==
    /\ Done
    /\ Len(served) = 2
    /\ Len(sent) = 2
    /\ served[2].kind = "transport_error"
    /\ envelope.result = None

\* the validator of the requested tool rejects the arguments of the request
ArgumentsRejected ==
    /\ Registered(request.tool)
    /\ ValidateArgs(RegistryGet(tools, request.tool).tool, request.args) # None

\* C27 as stated: the validator runs after lookup and before the Invocation
\* Context is constructed, so an invocation with invalid arguments never
\* constructs a context.
C27_ValidatorRunsBeforeContext ==
    Done => /\ (~Registered(request.tool) => ~validated /\ ctx = None)
            /\ (ArgumentsRejected => ctx = None)

\* C27 amended: call_tool looks the tool up, then constructs the Invocation
\* Context, then runs the validator: an unknown tool constructs no context and
\* runs no validator; invalid arguments leave a context that never constructed
\* its client and issued no request; a client exists only after validation.
C27_ContextThenValidatorThenClient ==
    Done => /\ (~Registered(request.tool) => ~validated /\ ctx = None)
            /\ (ArgumentsRejected =>
                    /\ ctx # None
                    /\ ctx.args = request.args
                    /\ ctx.api_token = request.canvasApiToken
                    /\ ctx.client = None
                    /\ ctx.built = 0
                    /\ ~validated
                    /\ sent = <<>>)
            /\ (ctx # None /\ ctx.client # None => validated)

C27_Witness ==
    /\ Done
    /\ request.tool = "get_course_users"
    /\ ArgumentsRejected
    /\ ctx # None
    /\ ctx.built = 0
    /\ ~validated

\* the message the stated precedence chooses for a failing response
ChosenMessage(response) ==
    IF response.json.ok /\ response.json.value.t = "dict"
    THEN IF DictHas(response.json.value, "message")
            /\ Truthy(DictGet(response.json.value, "message", None))
         THEN Format(DictGet(response.json.value, "message", None))
         ELSE Format(DictGet(response.json.value, "error", Str(UnknownError)))
    ELSE IF Len(response.text) > 0 THEN response.text
    ELSE UnknownError

\* C28: the classifier chooses its message by precedence (the body's message
\* field if present and non-empty, else its error field; the raw text when the
\* body is no JSON object; the fallback when the text is empty), and the
\* validation error (400, 422) and the generic error (other statuses below 500)
\* carry the chosen message.
C28_MessageChosenByPrecedence ==
    Done /\ Len(served) > 0 /\ IsFailure(LastServed)
         /\ KindOfStatus(LastServed.status_code) \in {"CanvasValidationError", "CanvasAPIError"} =>
        /\ outcome.kind = "raise"
        /\ outcome.exc.cls = KindOfStatus(LastServed.status_code)
        /\ outcome.exc.message =
               Str((IF outcome.exc.cls = "CanvasValidationError"
                    THEN <<"Validation error: ">> ELSE <<>>)
                   \o ChosenMessage(LastServed))

\* how often name occurs in the list of category cat (list_by_category)
Occurrences(by_cat, cat, name) ==
    IF cat \in DOMAIN by_cat
    THEN Cardinality({i \in 1..Len(by_cat[cat]) : by_cat[cat][i] = name})
    ELSE 0

\* the name index and the category index hold the same tools
IndexesAgree(reg, by_cat) ==
    /\ \A i \in 1..Len(reg) :
           /\ Occurrences(by_cat, reg[i].category, reg[i].name) = 1
           /\ \A cat \in DOMAIN by_cat \ {reg[i].category} :
                  Occurrences(by_cat, cat, reg[i].name) = 0
    /\ \A cat \in DOMAIN by_cat :
           \A i \in 1..Len(by_cat[cat]) : HasTool(reg, by_cat[cat][i])

\* C29: after any sequence of register calls the two indexes agree (every tool of
\* the name index is once in the list of its own category and in no other list,
\* every tool of a category list is in the name index), and a rejected register
\* leaves both indexes unchanged.
C29_IndexesAgree ==
    [][/\ IndexesAgree(tools', tools_by_category')
       /\ (imported' = imported + 1 /\ raised' # None =>
               tools' = tools /\ tools_by_category' = tools_by_category)]_vars

C29_Witness ==
    /\ imported = 4
    /\ Len(tools) = 2
    /\ raised # None
    /\ DOMAIN tools_by_category = {"courses"}
    /\ Len(tools_by_category["courses"]) = 2

====
